---------------------------- MODULE Spec2Model ----------------------------
(***************************************************************************)
(* State-machine model of the realtime Telegram offers monitor             *)
(* (src/realtime.py): the SeenDB duplicate cache, the NewMessage handler,  *)
(* the price parser / classifier it calls, and the shutdown hooks.         *)
(*                                                                         *)
(* Conventions.                                                            *)
(*  - A text is a string, read character by character; a regular           *)
(*    expression is the set of positions it can end at (section "regex").  *)
(*    The alphabet is ASCII and Latin-1.                                   *)
(*  - Money is counted in centavos (1850.00 is 185000), so that the float  *)
(*    comparisons of the code are exact integer comparisons.               *)
(*  - The handler is a coroutine without await: handler invocations never  *)
(*    interleave.  The only code that runs in the middle of one is a       *)
(*    Python signal handler (_on_exit), on top of the interrupted frame    *)
(*    of the same (main) thread.                                           *)
(*  - notify_all is a sequence of steps: one call of bot_send_text per     *)
(*    destination, each a loop of posts and sleeps; a signal or a kill     *)
(*    can fall between any two of them.                                    *)
(*  - time.time() is the wall clock: between two events it can advance,    *)
(*    stand still or be stepped back.  Rows of equal ts are told apart by  *)
(*    their rowid, as sqlite does.                                         *)
(*  - An event is the record of the attributes the handler reads, any of   *)
(*    which can be missing; the ids it works out are kept as their str().  *)
(*  - A write to a file is not atomic.  One that fails can leave the head  *)
(*    of what it was writing; the next line of the match log goes right    *)
(*    after such a head; two frames that have the same snapshot file open  *)
(*    each write from the start of the file.                               *)
(***************************************************************************)
EXTENDS Integers, Sequences, FiniteSets, TLC

\* ------------------------------------------------------------------ bounds
\* Largest configured SeenDB.maxlen explored (the program's default is 25000).
MaxCap == 3
\* Number of inbound events per behaviour.
MaxArrivals == 4

\* Chats and message ids of the inbound events.
Chats == {1, 2}
MsgIds == {1, 2}
\* Configured maxima explored.  Line 547 builds the one SeenDB of the
\* program with the default maxlen, 25000: the maxima stand for it, scaled
\* down, and like it leave at least one row after a cut (maxlen // 2 >= 1).
Caps == 2..MaxCap
\* Chats of the events that exercise the cache alone (see CacheSpec).
CacheChats == 1..MaxCap

\* Calls of is_dup each thread makes (see ConcSpec).
CallsPerThread == 2

\* Rows a dump reads: the newest ones only (LIMIT 10000 in the code, scaled
\* down with the table so that a snapshot can be a part of the table).
DumpLimit == 2

\* Python's None for an Optional[float].
NoPrice == -1

\* -------------------------------------------------------------------- text
\* A text is a string; its characters are counted from 1.
Ch(s, i) == SubSeq(s, i, i)
CharsOf(s) == {Ch(s, i) : i \in 1..Len(s)}
From(s, i) == SubSeq(s, i, Len(s))

Digits == CharsOf("0123456789")
DigitVal(c) == CHOOSE d \in 0..9 : Ch("0123456789", d + 1) = c
\* The letters of the alphabet of the model, ASCII and Latin-1: upper case
\* and lower case in the same order.
UpperChars == "ABCDEFGHIJKLMNOPQRSTUVWXYZÀÁÂÃÄÅÆÇÈÉÊËÌÍÎÏÐÑÒÓÔÕÖØÙÚÛÜÝÞ"
LowerChars == "abcdefghijklmnopqrstuvwxyzàáâãäåæçèéêëìíîïðñòóôõöøùúûüýþ"
\* \w of a str pattern: letters, digits (the ones \d does not take
\* included) and the underscore.
WordChars ==
  CharsOf(UpperChars) \cup CharsOf(LowerChars) \cup Digits
    \cup CharsOf("_ªºµßÿ¹²³¼½¾")
\* \s of a str pattern, and what str.strip() removes: the space, \t, \n, \r
\* and \f, then \x0b, \x1c, \x1d, \x1e, \x1f, \x85 and the no-break space
\* \xa0, in this order.
Space ==
  {" ", "\t", "\n", "\r", "\f", "", "", "", "", "", "", " "}

MinOf(S) == CHOOSE x \in S : \A y \in S : x <= y
MaxOf(S) == CHOOSE x \in S : \A y \in S : x >= y
Max2(a, b) == IF a > b THEN a ELSE b
Min2(a, b) == IF a < b THEN a ELSE b

\* re.I: the text with every upper-case letter turned into its lower-case
\* letter (the patterns are written in lower case).
UpperSet == CharsOf(UpperChars)
LowerCh(c) ==
  IF c \in UpperSet
  THEN Ch(LowerChars, CHOOSE k \in 1..Len(UpperChars) : Ch(UpperChars, k) = c)
  ELSE c
RECURSIVE Lower(_)
Lower(s) ==
  IF \A i \in 1..Len(s) : Ch(s, i) \notin UpperSet THEN s
  ELSE IF Len(s) = 1 THEN LowerCh(s)
  ELSE Lower(SubSeq(s, 1, Len(s) \div 2)) \o Lower(From(s, Len(s) \div 2 + 1))

\* str.strip(): leading and trailing whitespace removed.
Strip(s) ==
  LET ink == {i \in 1..Len(s) : Ch(s, i) \notin Space}
  IN IF ink = {} THEN "" ELSE SubSeq(s, MinOf(ink), MaxOf(ink))

\* ------------------------------------------------------------------ regex
\* A pattern is read from left to right on sets of positions: a position p
\* is the place before character p (1 is the start of the text, Len + 1 its
\* end), P the positions the pattern read so far can end at, and every
\* piece of a pattern gives the positions it can end at when it starts at
\* one of P.  A pattern matches somewhere (re.search) when, started at All,
\* it can end anywhere.  Greedy or not does not matter for that.
All(t) == 1..(Len(t) + 1)
IsWordAt(t, i) == i >= 1 /\ i <= Len(t) /\ Ch(t, i) \in WordChars
\* \b
Bnd(t, P) == {p \in P : IsWordAt(t, p - 1) # IsWordAt(t, p)}
\* the literal w
Lit(t, P, w) ==
  {p + Len(w) :
     p \in {q \in P : q + Len(w) - 1 <= Len(t) /\ SubSeq(t, q, q + Len(w) - 1) = w}}
\* (w1|w2|...)
AnyOf(t, P, ws) == UNION {Lit(t, P, w) : w \in ws}
\* w?
Opt(t, P, w) == P \cup Lit(t, P, w)
\* one character of the class S, and S*
One(t, P, S) == {p + 1 : p \in {q \in P : q <= Len(t) /\ Ch(t, q) \in S}}
RECURSIVE Star(_, _, _)
Star(t, P, S) ==
  LET Q == One(t, P, S) \ P IN IF Q = {} THEN P ELSE P \cup Star(t, Q, S)
\* \s*
Ws(t, P) == Star(t, P, Space)
\* \d
Dig(t, P) == One(t, P, Digits)
\* .*  ("." is every character but the line break): from p up to the end
\* of p's line.
LineEnd(t, p) ==
  LET nl == {k \in p..Len(t) : Ch(t, k) = "\n"}
  IN IF nl = {} THEN Len(t) + 1 ELSE MinOf(nl)
DotStar(t, P) == UNION {p..LineEnd(t, p) : p \in P}
\* a\s*b and a\s*b\s*c
Then(t, P, a, b) == Lit(t, Ws(t, Lit(t, P, a)), b)
Then3(t, P, a, b, c) == Lit(t, Ws(t, Then(t, P, a, b)), c)
\* (?!\s*w)
NotAhead(t, P, w) == {p \in P : Lit(t, Ws(t, {p}), w) = {}}

\* ------------------------------------------------------- price parser (BRL)
\* [0-9]{1,3}(?:\.[0-9]{3})*(?:,[0-9]{1,2})? started at position p, as the
\* regex engine takes it (greedy): the position after the figure, p if
\* there is no digit at p.
IsDigitAt(t, i) == i >= 1 /\ i <= Len(t) /\ Ch(t, i) \in Digits
LeadEnd(t, p) ==
  IF ~IsDigitAt(t, p) THEN p
  ELSE IF ~IsDigitAt(t, p + 1) THEN p + 1
  ELSE IF ~IsDigitAt(t, p + 2) THEN p + 2 ELSE p + 3
RECURSIVE GroupsEnd(_, _)
GroupsEnd(t, e) ==
  IF /\ e <= Len(t) /\ Ch(t, e) = "."
     /\ IsDigitAt(t, e + 1) /\ IsDigitAt(t, e + 2) /\ IsDigitAt(t, e + 3)
  THEN GroupsEnd(t, e + 4)
  ELSE e
DecimalEnd(t, e) ==
  IF e <= Len(t) /\ Ch(t, e) = "," /\ IsDigitAt(t, e + 1)
  THEN IF IsDigitAt(t, e + 2) THEN e + 3 ELSE e + 2
  ELSE e
FigureEnd(t, p) ==
  IF LeadEnd(t, p) = p THEN p ELSE DecimalEnd(t, GroupsEnd(t, LeadEnd(t, p)))

\* float(s) for a string of an optional sign, digits and at most one ".",
\* which is what is left of a figure of the price regexes (group 1: digits,
\* "." and ","); any other string is no number for the model (exponents,
\* underscores, "inf" and "nan", which float reads too, never occur in a
\* figure).  The value in centavos (digits after the second decimal cut
\* off), with whether it is negative and whether something non-zero was cut
\* off.
RECURSIVE Replace(_, _, _)
Replace(s, c, r) ==
  LET at == {i \in 1..Len(s) : Ch(s, i) = c}
  IN IF at = {} THEN s
     ELSE SubSeq(s, 1, MinOf(at) - 1) \o r \o Replace(From(s, MinOf(at) + 1), c, r)
RECURSIVE IntOf(_, _)
IntOf(s, acc) ==
  IF s = "" THEN acc ELSE IntOf(From(s, 2), 10 * acc + DigitVal(Ch(s, 1)))
RECURSIVE NoLeadingZeros(_)
NoLeadingZeros(s) == IF s # "" /\ Ch(s, 1) = "0" THEN NoLeadingZeros(From(s, 2)) ELSE s
NotANumber == [ok |-> FALSE, neg |-> FALSE, big |-> FALSE, cents |-> 0, more |-> FALSE]
float(s) ==
  LET signed == s # "" /\ Ch(s, 1) \in {"+", "-"}
      body == IF signed THEN From(s, 2) ELSE s
      dots == {i \in 1..Len(body) : Ch(body, i) = "."}
      dot == IF dots = {} THEN Len(body) + 1 ELSE MinOf(dots)
      whole == NoLeadingZeros(SubSeq(body, 1, dot - 1))
      frac == From(body, dot + 1)
  IN IF \/ Cardinality(dots) > 1
        \/ Len(body) - Cardinality(dots) = 0
        \/ \E i \in 1..Len(body) : Ch(body, i) \notin Digits \cup {"."}
     THEN NotANumber
     ELSE [ok |-> TRUE,
           neg |-> signed /\ Ch(s, 1) = "-",
           \* ten million or more: beyond every bound the code compares with
           big |-> Len(whole) > 7,
           cents |-> IF Len(whole) > 7 THEN 0
                     ELSE 100 * IntOf(whole, 0)
                            + (IF Len(frac) >= 1 THEN 10 * DigitVal(Ch(frac, 1)) ELSE 0)
                            + (IF Len(frac) >= 2 THEN DigitVal(Ch(frac, 2)) ELSE 0),
           more |-> \E i \in 3..Len(frac) : Ch(frac, i) # "0"]

\* _to_float_brl: "." removed, "," read as the decimal point; the value in
\* centavos, or NoPrice when it is no number, not positive or outside the
\* sanity band [5, 5000000].
_to_float_brl(raw) ==
  LET v == float(Replace(Replace(Strip(raw), ".", ""), ",", "."))
  IN IF ~v.ok THEN NoPrice
     ELSE IF v.neg \/ (~v.big /\ v.cents = 0 /\ ~v.more) THEN NoPrice
     ELSE IF v.big \/ v.cents < 500 \/ v.cents > 500000000
             \/ (v.cents = 500000000 /\ v.more) THEN NoPrice
     ELSE v.cents

\* r\$\s*(figure), case ignored, started at position p: group(1) runs from
\* `from` to just before `to`.  \s* ends where the whitespace ends: a figure
\* starts with a digit.
FigureAt(t, p) ==
  LET q == MaxOf(Ws(t, {p + 2}))
  IN [start |-> p, from |-> q, to |-> FigureEnd(t, q), end |-> FigureEnd(t, q)]
\* PRICE_FALLBACK_RE.finditer(text): the matches.
PRICE_FALLBACK_RE(text) ==
  LET t == Lower(text)
  IN {FigureAt(t, p) :
        p \in {s \in 1..Len(t) : /\ Lit(t, {s}, "r$") # {}
                                 /\ FigureAt(t, s).to > FigureAt(t, s).from}}
\* \s*(?:no\s*pix|à\s*vista|a\s*vista)
CashQualifier(t, P) ==
  Then(t, Ws(t, P), "no", "pix") \cup Then(t, Ws(t, P), "à", "vista")
    \cup Then(t, Ws(t, P), "a", "vista")
\* PRICE_PIX_RE.finditer(text): the figure followed by a cash qualifier.  A
\* shorter figure than the greedy one is followed by a digit, "." or ",",
\* never by the qualifier, so that the greedy figure is the only one to try.
PRICE_PIX_RE(text) ==
  LET t == Lower(text)
  IN {[m EXCEPT !.end = MaxOf(CashQualifier(t, {m.to}))] :
        m \in {f \in PRICE_FALLBACK_RE(t) : CashQualifier(t, {f.to}) # {}}}
\* m.group(1)
Group1(text, m) == SubSeq(text, m.from, m.to - 1)

\* NOT_PRICE_WORDS.search(context)
NOT_PRICE_WORDS(context) ==
  LET t == Lower(context)
      s == Bnd(t, All(t))
  IN Bnd(t, Opt(t, AnyOf(t, s, {"moeda", "ponto", "parcela"}), "s")
              \cup AnyOf(t, s, {"cashback", "reembolso", "frete", "km", "m2"})
              \cup Then(t, s, "de", "volta")
              \cup Then(t, s, "x", "de")) # {}

\* URL_RE.sub(" ", text): every https?://\S+ replaced by one blank, from
\* the left.
UrlEnds(t, p) ==
  LET body == Lit(t, Opt(t, Lit(t, {p}, "http"), "s"), "://")
  IN {e \in body : e <= Len(t) /\ Ch(t, e) \notin Space}
RECURSIVE URL_sub(_)
URL_sub(text) ==
  LET t == Lower(text)
      starts == {p \in 1..Len(t) : UrlEnds(t, p) # {}}
  IN IF starts = {} THEN text
     ELSE LET p == MinOf(starts)
              blanks == {e \in (p + 1)..Len(t) : Ch(t, e) \in Space}
              e == IF blanks = {} THEN Len(t) + 1 ELSE MinOf(blanks)
          IN SubSeq(text, 1, p - 1) \o " " \o URL_sub(From(text, e))

\* find_lowest_price: the cash-tagged amounts if there is one, otherwise the
\* currency-marked amounts whose +-40 character context has no negative term.
\* The cash qualifier ignored: no amount counts as cash-tagged.
PixValsNone(t) == {}
PixVals(t) == {_to_float_brl(Group1(t, m)) : m \in PRICE_PIX_RE(t)} \ {NoPrice}
FallbackVals(t) ==
  {_to_float_brl(Group1(t, m)) :
     m \in {f \in PRICE_FALLBACK_RE(t) :
              ~NOT_PRICE_WORDS(SubSeq(t, Max2(0, f.start - 1 - 40) + 1,
                                         Min2(Len(t), f.end - 1 + 40)))}}
    \ {NoPrice}
find_lowest_price(text) ==
  IF text = "" THEN NoPrice
  ELSE LET t == URL_sub(text)
           pix == PixVals(t)
           vals == IF pix # {} THEN pix ELSE FallbackVals(t)
       IN IF vals # {} THEN MinOf(vals) ELSE NoPrice


\* ------------------------------------------------------------ regex rules
\* Each rule is its pattern read piece by piece; the text is lowered first
\* (re.I).  Word(t, ws) is \b(w1|w2|...)\b.
Starts(t) == Bnd(t, All(t))
Word(t, ws) == Bnd(t, AnyOf(t, Starts(t), ws))

BLOCK_CATS(text) ==
  LET t == Lower(text)
      s == Starts(t)
  IN Bnd(t, AnyOf(t, s, {"celular", "smartphone", "iphone", "android", "notebook",
                         "laptop", "macbook", "geladeira", "refrigerador",
                         "lavadora"})
              \cup Then3(t, s, "maquina", "de", "lavar")
              \cup Then3(t, s, "máquina", "de", "lavar")
              \cup Then3(t, s, "lava", "e", "seca")) # {}
PC_GAMER_RE(text) ==
  LET t == Lower(text)
      s == Starts(t)
  IN Bnd(t, Then(t, s, "pc", "gamer") \cup Then(t, s, "setup", "completo")
              \cup Then(t, s, "kit", "completo")) # {}

\* \brtx\s*5060(?!\s*ti)\b started at P
Rtx5060(t, P) == Bnd(t, NotAhead(t, Then(t, Bnd(t, P), "rtx", "5060"), "ti"))
\* \b(n\s*(?:fans?|oc|x)|name\s*fan)\b started at P
Fans(t, P, n, name) ==
  Bnd(t, AnyOf(t, Ws(t, Lit(t, Bnd(t, P), n)), {"fan", "fans", "oc", "x"})
           \cup Then(t, Bnd(t, P), name, "fan"))
RTX5060_2FAN_RE(text) ==
  LET t == Lower(text)
  IN \/ Fans(t, DotStar(t, Rtx5060(t, All(t))), "2", "dual") # {}
     \/ Rtx5060(t, DotStar(t, Fans(t, All(t), "2", "dual"))) # {}
RTX5060_3FAN_RE(text) ==
  LET t == Lower(text)
  IN \/ Fans(t, DotStar(t, Rtx5060(t, All(t))), "3", "triple") # {}
     \/ Rtx5060(t, DotStar(t, Fans(t, All(t), "3", "triple"))) # {}
RTX5060_RE(text) == LET t == Lower(text) IN Rtx5060(t, All(t)) # {}
RTX5060TI_RE(text) ==
  LET t == Lower(text) IN Bnd(t, Then3(t, Starts(t), "rtx", "5060", "ti")) # {}
RTX5070_FAM(text) ==
  LET t == Lower(text)
      e == Then(t, Starts(t), "rtx", "5070")
  IN Bnd(t, e \cup Lit(t, Ws(t, e), "ti")) # {}

RYZEN_7_5700X_RE(text) ==
  LET t == Lower(text) IN Bnd(t, Then3(t, Starts(t), "ryzen", "7", "5700x")) # {}
\* [-\s]*
Dashes(t, P) == Star(t, P, {"-"} \cup Space)
I5_14400F_RE(text) ==
  LET t == Lower(text)
  IN Bnd(t, Lit(t, Dashes(t, Lit(t, Starts(t), "i5")), "14400f")) # {}
INTEL_SUP(text) ==
  LET t == Lower(text)
      i5 == Dashes(t, Lit(t, Starts(t), "i5"))
      i7 == Dashes(t, Lit(t, Starts(t), "i7"))
      i9 == Dashes(t, Lit(t, Starts(t), "i9"))
      kf(P) == Star(t, P, {"k", "f"})
  IN Bnd(t, kf(Dig(t, Dig(t, One(t, Lit(t, i5, "14"), {"4", "5", "6", "7", "8", "9"}))))
              \cup kf(Dig(t, Dig(t, Lit(t, i5, "145"))))
              \cup kf(Dig(t, Dig(t, Dig(t, Lit(t, i7, "14")))))
              \cup kf(Dig(t, Dig(t, Dig(t, Lit(t, i9, "14")))))) # {}
AMD_SUP(text) ==
  LET t == Lower(text)
      r7 == Ws(t, Then(t, Starts(t), "ryzen", "7"))
      r9 == Ws(t, Then(t, Starts(t), "ryzen", "9"))
  IN Bnd(t, Star(t, AnyOf(t, r7, {"5700x", "5800x"}), {"3", "d"})
              \cup AnyOf(t, r9, {"5900x", "5950x"})) # {}
AMD_BLOCK(text) ==
  LET t == Lower(text)
      s == Starts(t)
  IN Bnd(t, One(t, AnyOf(t, Ws(t, Lit(t, s, "ryzen")), {"3", "5"}), Space)
              \cup Opt(t, Opt(t, Lit(t, s, "5600"), "g"), "t")
              \cup Lit(t, s, "5500")
              \cup {p \in Lit(t, s, "5700") : Lit(t, {p}, "x") = {}}) # {}

A520_RE(text) ==
  LET t == Lower(text) IN Bnd(t, Opt(t, Lit(t, Starts(t), "a520"), "m")) # {}
H610_RE(text) ==
  LET t == Lower(text) IN Bnd(t, Opt(t, Lit(t, Starts(t), "h610"), "m")) # {}
LGA1700_RE(text) ==
  LET t == Lower(text)
      s == Starts(t)
  IN Bnd(t, Opt(t, AnyOf(t, s, {"b660", "b760"}), "m")
              \cup AnyOf(t, s, {"z690", "z790"})) # {}
SPECIFIC_B760M_RE(text) == LET t == Lower(text) IN Word(t, {"b760m"}) # {}
INTEL_14600K_RE(text) ==
  LET t == Lower(text)
  IN Bnd(t, Lit(t, Dashes(t, Lit(t, Starts(t), "i5")), "14600k")) # {}

\* \bwater\s*cooler\b, \b240\s*mm\b and \bargb\b started at P
WaterCooler(t, P) == Bnd(t, Then(t, Bnd(t, P), "water", "cooler"))
Mm240(t, P) == Bnd(t, Then(t, Bnd(t, P), "240", "mm"))
WordAfter(t, P, w) == Bnd(t, Lit(t, Bnd(t, P), w))
WATER_240MM_ARGB_RE(text) ==
  LET t == Lower(text)
  IN \/ WordAfter(t, DotStar(t, Mm240(t, DotStar(t, WaterCooler(t, All(t))))), "argb") # {}
     \/ Mm240(t, DotStar(t, WaterCooler(t, DotStar(t, WordAfter(t, All(t), "argb"))))) # {}
     \/ WordAfter(t, DotStar(t, WaterCooler(t, DotStar(t, Mm240(t, All(t))))), "argb") # {}

SSD_RE(text) ==
  LET t == Lower(text)
  IN \/ WordAfter(t, DotStar(t, Word(t, {"ssd"})), "kingston") # {}
     \/ WordAfter(t, DotStar(t, Word(t, {"kingston"})), "ssd") # {}
M2_RE(text) ==
  LET t == Lower(text)
  IN Bnd(t, Lit(t, Opt(t, Lit(t, Starts(t), "m"), "."), "2")) # {}
       \/ Word(t, {"nvme"}) # {}
TB1_RE(text) == LET t == Lower(text) IN Bnd(t, Then(t, Starts(t), "1", "tb")) # {}

\* \b16\s*gb\b started at P
Gb16(t, P) == Bnd(t, Then(t, Bnd(t, P), "16", "gb"))
RAM_16GB_3200_RE(text) ==
  LET t == Lower(text)
  IN \/ WordAfter(t, DotStar(t, Gb16(t, DotStar(t, Word(t, {"ddr4"})))), "3200") # {}
     \/ WordAfter(t, DotStar(t, WordAfter(t, DotStar(t, Gb16(t, All(t))), "ddr4")), "3200") # {}

CADEIRA_RE(text) == LET t == Lower(text) IN Word(t, {"cadeira"}) # {}
DUALSENSE_RE(text) ==
  LET t == Lower(text)
      s == Starts(t)
  IN Bnd(t, Lit(t, s, "dualsense") \cup Then(t, s, "controle", "ps5")
              \cup Then3(t, s, "controle", "playstation", "5")) # {}
\* \bar\s*condicionado\b started at P
ArCond(t, P) == Bnd(t, Then(t, Bnd(t, P), "ar", "condicionado"))
AR_INVERTER_RE(text) ==
  LET t == Lower(text)
  IN \/ WordAfter(t, DotStar(t, ArCond(t, All(t))), "inverter") # {}
     \/ ArCond(t, DotStar(t, Word(t, {"inverter"}))) # {}
KINDLE_RE(text) == LET t == Lower(text) IN Word(t, {"kindle"}) # {}
\* \bprogr[aá]m[aá]vel\b started at P
Programavel(t, P) ==
  Bnd(t, Lit(t, AnyOf(t, Lit(t, AnyOf(t, Lit(t, Bnd(t, P), "progr"), {"a", "á"}), "m"),
                      {"a", "á"}), "vel"))
CAFETEIRA_PROG_RE(text) ==
  LET t == Lower(text)
  IN \/ Programavel(t, DotStar(t, Word(t, {"cafeteira"}))) # {}
     \/ WordAfter(t, DotStar(t, Programavel(t, All(t))), "cafeteira") # {}
TENIS_NIKE_RE(text) ==
  LET t == Lower(text)
      tenis == Ws(t, AnyOf(t, Starts(t), {"tênis", "tenis"}))
  IN Bnd(t, AnyOf(t, tenis, {"nike", "jordan"})
              \cup Then(t, tenis, "air", "max")
              \cup Then(t, tenis, "air", "force")) # {}
WEBCAM_4K_RE(text) ==
  LET t == Lower(text)
  IN \/ WordAfter(t, DotStar(t, Word(t, {"webcam"})), "4k") # {}
     \/ WordAfter(t, DotStar(t, Word(t, {"4k"})), "webcam") # {}
TV_RE(text) ==
  LET t == Lower(text)
      s == Starts(t)
  IN Bnd(t, Lit(t, s, "tv") \cup Then(t, s, "smart", "tv")
              \cup AnyOf(t, Lit(t, s, "televis"), {"ão", "ao"})) # {}

\* A lookahead (?=.*x) holds at p when x matches from a position between p
\* and the end of p's line (`from`: the positions x matches from).
Ahead(t, p, from) == \E q \in from : p <= q /\ q <= LineEnd(t, p)
\* \b27gs60f\b, or at one position all of (?=.*\blg\b)(?=.*\bultragear\b)
\* (?=.*\b27\s*[\"']?)(?=.*\b180\s*hz\b)(?=.*\b(?:fhd|full\s*hd)\b)
MONITOR_LG_27_RE(text) ==
  LET t == Lower(text)
      lg == {q \in All(t) : WordAfter(t, {q}, "lg") # {}}
      ultragear == {q \in All(t) : WordAfter(t, {q}, "ultragear") # {}}
      size == {q \in All(t) : Lit(t, Bnd(t, {q}), "27") # {}}
      hz == {q \in All(t) : Bnd(t, Then(t, Bnd(t, {q}), "180", "hz")) # {}}
      fhd == {q \in All(t) : Bnd(t, Lit(t, Bnd(t, {q}), "fhd")
                                      \cup Then(t, Bnd(t, {q}), "full", "hd")) # {}}
  IN \/ Word(t, {"27gs60f"}) # {}
     \/ \E p \in All(t) : /\ Ahead(t, p, lg) /\ Ahead(t, p, ultragear)
                           /\ Ahead(t, p, size) /\ Ahead(t, p, hz)
                           /\ Ahead(t, p, fhd)
MONITOR_RE(text) == LET t == Lower(text) IN Word(t, {"monitor"}) # {}
MonitorSizes == {"27", "28", "29", "30", "31", "32", "34", "35", "38", "40",
                 "42", "43", "45", "48", "49", "50", "55"}
MONITOR_SIZE_RE(text) ==
  LET t == Lower(text)
      e == Ws(t, AnyOf(t, Starts(t), MonitorSizes))
  IN Bnd(t, e \cup One(t, e, {"\"", "'"})) # {}
\* (14[4-9]|1[5-9]\d|[2-9]\d{2})\s*hz
MONITOR_144HZ_RE(text) ==
  LET t == Lower(text)
      s == Starts(t)
      hz == One(t, Lit(t, s, "14"), {"4", "5", "6", "7", "8", "9"})
              \cup Dig(t, One(t, Lit(t, s, "1"), {"5", "6", "7", "8", "9"}))
              \cup Dig(t, Dig(t, One(t, s, {"2", "3", "4", "5", "6", "7", "8", "9"})))
  IN Bnd(t, Lit(t, Ws(t, hz), "hz")) # {}

\* --------------------------------------------------------------- classifier
\* The tuple classify_and_match returns: ok, key, title, price, reason.
\* A result that keeps the price only when it is matched.
ResPriceIfMatched(ok, key, title, price, reason) ==
  [ok |-> ok, key |-> key, title |-> title,
   price |-> IF ok THEN price ELSE NoPrice, reason |-> reason]
Res(ok, key, title, price, reason) ==
  [ok |-> ok, key |-> key, title |-> title, price |-> price, reason |-> reason]
\* Python's "not price" for an Optional[float].
NotPrice(price) == price = NoPrice \/ price = 0

\* Band failing open: a text without a price matches.
BandFailOpen(price, key, title, titleOk, low, lowReason, high, okReason, highReason) ==
  IF NotPrice(price) THEN Res(TRUE, key, titleOk, NoPrice, okReason)
  ELSE IF price < 100 * low THEN Res(FALSE, key, title, price, lowReason)
  ELSE IF price < 100 * high THEN Res(TRUE, key, titleOk, price, okReason)
  ELSE Res(FALSE, key, title, price, highReason)
\* Band with the upper threshold included.
BandTopIncl(price, key, title, titleOk, low, lowReason, high, okReason, highReason) ==
  IF NotPrice(price) THEN Res(FALSE, key, title, NoPrice, "sem preço")
  ELSE IF price < 100 * low THEN Res(FALSE, key, title, price, lowReason)
  ELSE IF price <= 100 * high THEN Res(TRUE, key, titleOk, price, okReason)
  ELSE Res(FALSE, key, title, price, highReason)
\* The branch shape most rules share: no price, below low (implausible),
\* below high (match), otherwise too expensive.  low and high in reais.
Band(price, key, title, titleOk, low, lowReason, high, okReason, highReason) ==
  IF NotPrice(price) THEN Res(FALSE, key, title, NoPrice, "sem preço")
  ELSE IF price < 100 * low THEN Res(FALSE, key, title, price, lowReason)
  ELSE IF price < 100 * high THEN Res(TRUE, key, titleOk, price, okReason)
  ELSE Res(FALSE, key, title, price, highReason)
\* BandIncl with the upper threshold excluded.
BandInclOpen(price, key, title, low, lowReason, high, okReason, highReason) ==
  IF NotPrice(price) THEN Res(FALSE, key, title, NoPrice, "sem preço")
  ELSE IF price < 100 * low THEN Res(FALSE, key, title, price, lowReason)
  ELSE IF price < 100 * high THEN Res(TRUE, key, title, price, okReason)
  ELSE Res(FALSE, key, title, price, highReason)
\* The same with an inclusive upper threshold (price <= high).
BandIncl(price, key, title, low, lowReason, high, okReason, highReason) ==
  IF NotPrice(price) THEN Res(FALSE, key, title, NoPrice, "sem preço")
  ELSE IF price < 100 * low THEN Res(FALSE, key, title, price, lowReason)
  ELSE IF price <= 100 * high THEN Res(TRUE, key, title, price, okReason)
  ELSE Res(FALSE, key, title, price, highReason)

\* The rule chain of classify_and_match, on the text and its lowest price.
match_rules(t, price) ==
  IF BLOCK_CATS(t)
    THEN Res(FALSE, "block:cat", "Categoria bloqueada", NoPrice, "celular/notebook etc.")
  ELSE IF PC_GAMER_RE(t)
    THEN Res(FALSE, "block:pcgamer", "PC Gamer bloqueado", NoPrice, "setup completo")
  ELSE IF A520_RE(t)
    THEN Res(FALSE, "mobo:a520", "A520 bloqueada", price, "A520 bloqueada")
  ELSE IF H610_RE(t)
    THEN Res(FALSE, "mobo:h610", "H610 bloqueada", price, "H610 bloqueada")
  ELSE IF LGA1700_RE(t) \/ SPECIFIC_B760M_RE(t)
    THEN Band(price, "mobo:lga1700", "Placa-mãe LGA1700/B760", "Placa-mãe LGA1700/B760",
              300, "preço irreal (< 300)", 600, "< 600", ">= 600")
  ELSE IF INTEL_14600K_RE(t)
    THEN Band(price, "cpu:i5-14600k", "i5-14600K", "i5-14600K",
              400, "preço irreal (< 400)", 1000, "< 1000", ">= 1000")
  ELSE IF RTX5060_3FAN_RE(t)
    THEN Band(price, "gpu:rtx5060:3fan", "RTX 5060 3 Fans", "RTX 5060 Triple Fan",
              1500, "preço irreal (< 1500)", 1950, "< 1950", ">= 1950")
  ELSE IF RTX5060_2FAN_RE(t)
    THEN Band(price, "gpu:rtx5060:2fan", "RTX 5060 2 Fans", "RTX 5060 Dual Fan",
              1500, "preço irreal (< 1500)", 1850, "< 1850", ">= 1850")
  ELSE IF RTX5060TI_RE(t)
    THEN Band(price, "gpu:rtx5060ti", "RTX 5060 Ti", "RTX 5060 Ti",
              1500, "preço irreal (< 1500)", 2100, "< 2100", ">= 2100")
  ELSE IF RTX5060_RE(t)
    THEN Band(price, "gpu:rtx5060", "RTX 5060", "RTX 5060",
              1500, "preço irreal (< 1500)", 1900, "< 1900", ">= 1900")
  ELSE IF RTX5070_FAM(t)
    THEN Band(price, "gpu:rtx5070", "RTX 5070/5070 Ti", "RTX 5070/5070 Ti",
              2500, "preço irreal (< 2500)", 3500, "< 3500", ">= 3500")
  ELSE IF AMD_BLOCK(t)
    THEN Res(FALSE, "cpu:amd:block", "CPU AMD inferior", price, "Ryzen 3/5 bloqueado")
  ELSE IF RYZEN_7_5700X_RE(t)
    THEN Band(price, "cpu:ryzen7_5700x", "Ryzen 7 5700X", "Ryzen 7 5700X",
              400, "preço irreal (< 400)", 800, "< 800", ">= 800")
  ELSE IF I5_14400F_RE(t)
    THEN Band(price, "cpu:i5_14400f", "i5-14400F", "i5-14400F",
              400, "preço irreal (< 400)", 750, "< 750", ">= 750")
  ELSE IF INTEL_SUP(t)
    THEN Band(price, "cpu:intel", "CPU Intel sup.", "CPU Intel sup. (i5-14400F+)",
              400, "preço irreal (< 400)", 900, "< 900", ">= 900")
  ELSE IF AMD_SUP(t)
    THEN Band(price, "cpu:amd", "CPU AMD sup.", "CPU AMD sup. (Ryzen 7 5700X+)",
              400, "preço irreal (< 400)", 900, "< 900", ">= 900")
  ELSE IF WATER_240MM_ARGB_RE(t)
    THEN Band(price, "cooler:water240argb", "Water Cooler 240mm ARGB",
              "Water Cooler 240mm ARGB",
              50, "preço irreal (< 50)", 200, "< 200", ">= 200")
  ELSE IF SSD_RE(t) /\ M2_RE(t) /\ TB1_RE(t)
    THEN IF NotPrice(price)
           THEN Res(FALSE, "ssd:kingston:m2:1tb", "SSD Kingston M.2 1TB", NoPrice, "sem preço")
         ELSE IF price <= 100 * 400
           THEN Res(TRUE, "ssd:kingston:m2:1tb", "SSD Kingston M.2 1TB", price, "<= 400")
         ELSE Res(FALSE, "ssd:kingston:m2:1tb", "SSD Kingston M.2 1TB", price, "> 400")
  ELSE IF RAM_16GB_3200_RE(t)
    THEN BandIncl(price, "ram:16gb3200", "Memória 16GB DDR4 3200MHz",
                  100, "preço irreal (< 100)", 300, "<= 300", "> 300")
  ELSE IF CADEIRA_RE(t)
    THEN IF NotPrice(price) THEN Res(FALSE, "cadeira", "Cadeira", NoPrice, "sem preço")
         ELSE IF 100 * 300 <= price /\ price < 100 * 500
           THEN Res(TRUE, "cadeira", "Cadeira Gamer", price, "entre 300-500")
         ELSE Res(FALSE, "cadeira", "Cadeira", price, "fora da faixa 300-500")
  ELSE IF DUALSENSE_RE(t)
    THEN Band(price, "dualsense", "Controle PS5 DualSense", "Controle PS5 DualSense",
              200, "preço irreal (< 200)", 300, "< 300", ">= 300")
  ELSE IF AR_INVERTER_RE(t)
    THEN Band(price, "ar_inverter", "Ar Condicionado Inverter", "Ar Condicionado Inverter",
              1000, "preço irreal (< 1000)", 1500, "< 1500", ">= 1500")
  ELSE IF KINDLE_RE(t)
    THEN BandIncl(price, "kindle", "Kindle",
                  100, "preço irreal (< 100)", 470, "<= 470", "> 470")
  ELSE IF CAFETEIRA_PROG_RE(t)
    THEN Band(price, "cafeteira", "Cafeteira Programável", "Cafeteira Programável",
              50, "preço irreal (< 50)", 500, "< 500", ">= 500")
  ELSE IF TENIS_NIKE_RE(t)
    THEN IF ~NotPrice(price) /\ price < 100 * 250
           THEN Res(TRUE, "tenis_nike", "Tênis Nike", price, "< 250")
         ELSE Res(FALSE, "tenis_nike", "Tênis Nike", price, ">= 250 ou sem preço")
  ELSE IF WEBCAM_4K_RE(t)
    THEN IF ~NotPrice(price) /\ price < 100 * 250
           THEN Res(TRUE, "webcam_4k", "Webcam 4K", price, "< 250")
         ELSE Res(FALSE, "webcam_4k", "Webcam 4K", price, ">= 250 ou sem preço")
  ELSE IF TV_RE(t)
    THEN BandIncl(price, "tv", "TV / Smart TV",
                  200, "preço irreal (<200)", 1000, "<=1000", "> 1000")
  ELSE IF MONITOR_LG_27_RE(t)
    THEN Band(price, "monitor:lg27", "Monitor LG UltraGear 27\" 180Hz",
              "Monitor LG UltraGear 27\" 180Hz",
              200, "preço irreal (< 200)", 700, "< 700", ">= 700")
  ELSE IF MONITOR_RE(t) /\ MONITOR_SIZE_RE(t) /\ MONITOR_144HZ_RE(t)
    THEN Band(price, "monitor", "Monitor 27\"+ 144Hz+", "Monitor 27\"+ 144Hz+",
              200, "preço irreal (< 200)", 700, "< 700", ">= 700")
  ELSE Res(FALSE, "none", "sem match", price, "sem match")

\* The Ryzen 7 5700X rule moved to the head of the chain.
classify_ryzen_first(text) ==
  IF RYZEN_7_5700X_RE(text)
  THEN Band(find_lowest_price(text), "cpu:ryzen7_5700x", "Ryzen 7 5700X",
            "Ryzen 7 5700X", 400, "preço irreal (< 400)", 800, "< 800", ">= 800")
  ELSE match_rules(text, find_lowest_price(text))
\* The RTX 5060 rule tried before the block list and the bundle block.
classify_product_before_block(text) ==
  IF RTX5060_RE(text)
  THEN Band(find_lowest_price(text), "gpu:rtx5060", "RTX 5060", "RTX 5060",
            1500, "preço irreal (< 1500)", 1900, "< 1900", ">= 1900")
  ELSE match_rules(text, find_lowest_price(text))
\* The LGA1700/B760 rule tried before the A520 and H610 vetoes.
classify_mobo_before_veto(text) ==
  IF LGA1700_RE(text) \/ SPECIFIC_B760M_RE(text)
  THEN Band(find_lowest_price(text), "mobo:lga1700", "Placa-mãe LGA1700/B760",
            "Placa-mãe LGA1700/B760",
            300, "preço irreal (< 300)", 600, "< 600", ">= 600")
  ELSE match_rules(text, find_lowest_price(text))
classify_and_match(text) == match_rules(text, find_lowest_price(text))

\* needs_header / get_header_text: the urgency prefix of a notification
\* (the fire emoji of the prefix is written <fire>).
\* str.startswith
startswith(s, prefix) ==
  Len(s) >= Len(prefix) /\ SubSeq(s, 1, Len(prefix)) = prefix
needs_header(product_key, price) ==
  IF NotPrice(price) THEN FALSE
  ELSE \/ product_key = "gpu:rtx5060:3fan" /\ price < 100 * 1950
       \/ product_key = "gpu:rtx5060:2fan" /\ price < 100 * 1850
       \/ product_key = "gpu:rtx5060ti" /\ price < 100 * 2100
       \/ product_key = "cpu:ryzen7_5700x" /\ price < 100 * 800
       \/ product_key = "cpu:i5_14400f" /\ price < 100 * 750
       \/ startswith(product_key, "cpu:") /\ price < 100 * 900
       \/ product_key = "dualsense" /\ price < 100 * 300
       \/ product_key = "monitor:lg27" /\ price < 100 * 700
get_header_text(product_key) ==
  IF product_key = "ar_premium" THEN "Oportunidade<fire> "
  ELSE "Corre!<fire> "


\* ------------------------------------------------------------------ corpus
\* The text of the message (chat, msg): a redelivered message has the text
\* of its first delivery.  The texts of the corpus are written without
\* accents (the cash qualifier is read as "[àa] vista"); accented texts are
\* among the inputs of the classifier below.
Texts ==
  << "RTX 5060 por R$ 1.850,00 a vista",
     \* padded with whitespace
     "  Ryzen 7 5700X R$ 749,90 no pix \n",
     "RTX 5060 Ti R$ 2.199,00",
     "Notebook gamer RTX 5060 R$ 1.700,00 no pix" >>
TextOf(chat, msg) ==
  Texts[(((chat - 1) * Cardinality(MsgIds) + (msg - 1)) % Len(Texts)) + 1]
\* A message of whitespace only.
BlankText == " \n"


\* ------------------------------------------------- inputs of the classifier
\* The offers the classifier is checked on are written from a description:
\* the product phrases of the text, in order, and the amounts it mentions,
\* each an amount in centavos with the way it is written.  The expected
\* values below are computed from the description, never from the text.

\* An amount written the Brazilian way: "1.799,90" (style "full") or
\* "3.199" (style "int", whole reais only), and written without the dots
\* between the groups of three digits: "1799,90" (style "run") or "3199"
\* (style "runint").
DigitCh(d) == Ch("0123456789", d + 1)
RECURSIVE IntChars(_)
IntChars(n) ==
  IF n < 10 THEN DigitCh(n) ELSE IntChars(n \div 10) \o DigitCh(n % 10)
RECURSIVE Grouped(_)
Grouped(n) ==
  IF n < 1000 THEN IntChars(n)
  ELSE Grouped(n \div 1000)
         \o "." \o DigitCh((n % 1000) \div 100) \o DigitCh((n % 100) \div 10)
         \o DigitCh(n % 10)
Written(cents, style) ==
  (IF style \in {"int", "full"} THEN Grouped(cents \div 100)
   ELSE IntChars(cents \div 100))
    \o (IF style \in {"int", "runint"} THEN ""
        ELSE "," \o DigitCh((cents % 100) \div 10) \o DigitCh(cents % 10))

\* A mention of an amount: with or without the currency marker, followed or
\* not by a cash qualifier.  Written tightly, the marker is glued to the
\* figure and the qualifier is followed by punctuation.
Mention(cents, style, mark, qual) ==
  [cents |-> cents, style |-> style, mark |-> mark, qual |-> qual]
MentionText(m, form) ==
  (IF m.mark = "r$" THEN (IF form = "tight" THEN "R$" ELSE "R$ ") ELSE "")
    \o Written(m.cents, m.style)
    \o (IF m.qual = "pix" THEN (IF form = "tight" THEN " no pix!" ELSE " no pix")
        ELSE IF m.qual = "vista"
        THEN (IF form = "tight" THEN " à vista." ELSE " à vista") ELSE "")

\* The product phrases, with the place of their rule in classify_and_match.
Phrase(name) ==
  CASE name = "oferta"    -> "Oferta imperdível"
    [] name = "notebook"  -> "Notebook gamer"
    [] name = "pcgamer"   -> "PC Gamer"
    [] name = "a520"      -> "ASUS A520M"
    [] name = "h610"      -> "H610 DDR4"
    [] name = "b760m"     -> "Placa-mãe B760M"
    [] name = "i5-14600k" -> "i5-14600K"
    [] name = "rtx5060"   -> "RTX 5060"
    [] name = "ryzen"     -> "Ryzen 7 5700X"
    [] name = "ssd"       -> "SSD Kingston NVMe 1TB"
    [] name = "ram"       -> "DDR4 16GB 3200"
    [] name = "cadeira"   -> "Cadeira gamer"
    [] name = "kindle"    -> "Kindle"
    [] name = "tenis"     -> "Tênis Nike"
    [] name = "tv"        -> "Smart TV"
    [] name = "monitor"   -> "Monitor 27 144Hz"
BlockPhrases == {"notebook", "pcgamer"}
VetoPhrases == {"a520", "h610"}
PricedPhrases == {"b760m", "i5-14600k", "rtx5060", "ryzen", "ssd", "ram",
                  "cadeira", "kindle", "tenis", "tv", "monitor"}
Phrases == {"oferta"} \cup BlockPhrases \cup VetoPhrases \cup PricedPhrases

\* The text of a description: the phrases, a negative-context word next to
\* the amounts ("near") or more than 40 characters before them ("far"),
\* then the amounts, "de" before the first and "por" before the second.
\* The form of the description is the way the text is written:
\*   "plain"  one blank between two parts;
\*   "tight"  a comma after every part but the last, "de:" and "por:" glued
\*            to the amounts;
\*   "caps"   the plain text in upper case;
\*   "link"   the plain text followed by the address of a page, in which
\*            an amount is written.
Filler == "aproveiteaproveiteaproveiteaproveiteaproveite"
Link == "https://loja.example/p?v=R$9,99"
RECURSIVE Join(_, _)
Join(parts, sep) ==
  IF parts = <<>> THEN ""
  ELSE IF Len(parts) = 1 THEN Head(parts)
  ELSE Head(parts) \o sep \o Join(Tail(parts), sep)
LowerSet == CharsOf(LowerChars)
UpperCh(c) ==
  IF c \in LowerSet
  THEN Ch(UpperChars, CHOOSE k \in 1..Len(LowerChars) : Ch(LowerChars, k) = c)
  ELSE c
RECURSIVE Upper(_)
Upper(s) ==
  IF Len(s) <= 1 THEN UpperCh(s)
  ELSE Upper(SubSeq(s, 1, Len(s) \div 2)) \o Upper(From(s, Len(s) \div 2 + 1))
RECURSIVE PhrasesText(_)
PhrasesText(names) ==
  IF names = <<>> THEN <<>> ELSE <<Phrase(Head(names))>> \o PhrasesText(Tail(names))
Quoted(word, m, form) ==
  IF form = "tight" THEN <<word \o ":" \o MentionText(m, form)>>
  ELSE <<word, MentionText(m, form)>>
Parts(d) ==
  PhrasesText(d.prods)
    \o (IF d.neg = "near" THEN <<"frete">>
        ELSE IF d.neg = "far" THEN <<"frete", Filler>> ELSE <<>>)
    \o (IF Len(d.mentions) >= 1 THEN Quoted("de", d.mentions[1], d.form) ELSE <<>>)
    \o (IF Len(d.mentions) >= 2 THEN Quoted("por", d.mentions[2], d.form) ELSE <<>>)
OfferText(d) ==
  CASE d.form = "plain" -> Join(Parts(d), " ")
    [] d.form = "tight" -> Join(Parts(d), ", ")
    [] d.form = "caps"  -> Upper(Join(Parts(d), " "))
    [] d.form = "link"  -> Join(Parts(d) \o <<Link>>, " ")
Offer(prods, neg, mentions) ==
  [kind |-> "offer", prods |-> prods, neg |-> neg, mentions |-> mentions,
   form |-> "plain"]

\* The amounts around the thresholds of the rules, in centavos.
Thresholds == {100, 200, 250, 300, 400, 470, 500, 600, 700, 800, 1000, 1500, 1900}
BoundaryAmounts == UNION {{100 * h - 1, 100 * h, 100 * h + 1} : h \in Thresholds}
\* Amounts around the sanity band [5, 5000000] and the ones of the examples.
BandAmounts == {0, 499, 500, 8990, 179990, 319900, 500000000, 500000001}
QuotedAmounts == {499, 169900, 199900}

\* One phrase, one amount around a threshold, with or without "no pix".
BoundaryOffers ==
  {Offer(<<p>>, "none", <<Mention(c, "full", "r$", q)>>) :
     p \in Phrases, c \in BoundaryAmounts, q \in {"", "pix"}}
\* Two phrases, one amount.
PairOffers ==
  {Offer(<<pq[1], pq[2]>>, "none", <<Mention(c, "full", "r$", "")>>) :
     pq \in {x \in Phrases \X Phrases : x[1] # x[2]}, c \in {45000, 170000}}
\* A phrase and no amount.
BareOffers == {Offer(<<p>>, "none", <<>>) : p \in Phrases}
\* Two amounts, each cash-tagged or not, with or without a negative word.
QuoteOffers ==
  {Offer(ps, n, <<Mention(c1, "full", "r$", q1), Mention(c2, "full", "r$", q2)>>) :
     ps \in {<<>>, <<"rtx5060">>, <<"notebook">>}, n \in {"none", "near", "far"},
     c1 \in QuotedAmounts, c2 \in QuotedAmounts,
     q1 \in {"", "pix", "vista"}, q2 \in {"", "pix"}}
\* One amount in both styles, with and without the currency marker (whole
\* reais only in the style without decimals).
FigureOffers ==
  {Offer(ps, "none", <<Mention(c, st, mk, "")>>) :
     ps \in {<<>>, <<"tv">>},
     c \in BandAmounts \cup {60000},
     st \in {"full", "int"}, mk \in {"r$", "bare"}}
    \ {Offer(ps, "none", <<Mention(c, "int", mk, "")>>) :
         ps \in {<<>>, <<"tv">>}, c \in {x \in BandAmounts : x % 100 # 0},
         mk \in {"r$", "bare"}}
\* One amount of a thousand reais or more, with the currency marker and
\* without the dots between the groups of digits.
RunAmounts == {189990, 199900, 299900, 1234500}
RunOffers ==
  {Offer(ps, "none", <<Mention(c, st, "r$", "")>>) :
     ps \in {<<>>, <<"tv">>}, c \in RunAmounts, st \in {"run", "runint"}}
    \ {Offer(ps, "none", <<Mention(c, "runint", "r$", "")>>) :
         ps \in {<<>>, <<"tv">>}, c \in {x \in RunAmounts : x % 100 # 0}}
\* The offers that hold one figure.
FigureInputs == FigureOffers \cup RunOffers
\* Offers written in the other forms: every phrase without an amount and
\* with an amount next to a threshold, the RTX 5060 with two amounts, and
\* the pairs of phrases that start with the motherboard or the RTX 5060.
Forms == {"tight", "caps", "link"}
StyledBase ==
  BareOffers
    \cup {d \in QuoteOffers : d.prods = <<"rtx5060">>}
    \cup {d \in BoundaryOffers : d.mentions[1].cents \in {59999, 189999}}
    \cup {d \in PairOffers : d.mentions[1].cents = 45000
                                /\ d.prods[1] \in {"b760m", "rtx5060"}}
StyledOffers == {[d EXCEPT !.form = f] : d \in StyledBase, f \in Forms}
ClassifyInputs ==
  BoundaryOffers \cup PairOffers \cup BareOffers \cup QuoteOffers
    \cup FigureOffers \cup StyledOffers


\* ------------------------------------------------------------------- state
VARIABLES
  maxlen,    \* SeenDB.maxlen
  USER_DESTINATIONS, \* the chat ids the notifications go to, as configured
  seen,      \* the table seen(key, ts) of the sqlite file: key -> its row
  now,       \* time.time()
  pc,        \* where the main thread is (the handler, or main's shutdown path)
  ev,        \* the handler's locals: the event, chat_id, msg_id, msg_text
  result,    \* the handler's classification result
  lock,      \* seen_db.lock: "free", or the frame that holds it
  sigpc,     \* the signal-handler frame on top of the main frame
  dstage,    \* per frame, where its dump_to_json call is
  drows,     \* per frame, the rows its dump_to_json read
  files,     \* the snapshot files of dump_to_json
  matchlog,  \* the match log file
  \* history, kept to state the properties
  frags,     \* every inbound event, with what became of it
  calls,     \* every is_dup invocation: key, time, result, whether it cut
  nEvict,    \* how many times each key was evicted
  flushes,   \* every classifier evaluation: the fragments and text it evaluated
  notified,  \* every notify_all call: message, rendered text, and what
             \* bot_send_text returned for each destination so far
  boot,      \* what the last restart found
  signalled, \* a signal has been delivered
  input,     \* the description the text of the event to come is written from
  threads,   \* the threads calling SeenDB.is_dup directly, each with its call
  send       \* the call of bot_send_text: its position, locals and history

vars == <<maxlen, USER_DESTINATIONS, seen, now, pc, ev, result, lock, sigpc,
          dstage, drows, files, matchlog, frags, calls, nEvict, flushes,
          notified, boot, signalled, input, threads, send>>
\* What the handler never changes: the destinations, the description of
\* the text and the direct callers of is_dup.
conf == <<USER_DESTINATIONS, input, threads>>
\* The state the steps of is_dup, the dumps and the lifecycle leave alone.
others == <<conf, send>>

\* SeenDB._key: f"{chat_id}:{msg_id}", of the str() of the two ids.
_key(chat_id, msg_id) == chat_id \o ":" \o msg_id

\* A row of the table: its ts and its rowid.  sqlite numbers the rows as
\* they are inserted, a new row getting the largest rowid of the table plus
\* one (INSERT OR REPLACE of a stored key makes a new row as well).
Row(ts, rowid) == [ts |-> ts, rowid |-> rowid]
EmptyTable == [k \in {} |-> Row(0, 0)]
NextRowid(tbl) ==
  IF DOMAIN tbl = {} THEN 1 ELSE MaxOf({tbl[k].rowid : k \in DOMAIN tbl}) + 1
\* The key of row j comes before the key of row k in ORDER BY ts DESC.
\* sqlite answers the query from the index idx_seen_ts (line 503), whose
\* entries are in the order of (ts, rowid), read backwards: the larger ts
\* first and, of two rows of equal ts, the one inserted last first.
Before(tbl, j, k) ==
  \/ tbl[j].ts > tbl[k].ts
  \/ tbl[j].ts = tbl[k].ts /\ tbl[j].rowid > tbl[k].rowid

\* SELECT key FROM seen ORDER BY ts DESC LIMIT n, as a set: the first n
\* rows of the order, exactly n of them when the table has that many.
keep_keys(tbl, n) ==
  {k \in DOMAIN tbl : Cardinality({j \in DOMAIN tbl : Before(tbl, j, k)}) < n}
\* The keys ks as the list the query gives them in.
RECURSIVE ByTsDesc(_, _)
ByTsDesc(tbl, ks) ==
  IF ks = {} THEN <<>>
  ELSE LET top == CHOOSE k \in ks : \A j \in ks \ {k} : Before(tbl, k, j)
       IN <<top>> \o ByTsDesc(tbl, ks \ {top})
\* Line 538: SELECT key FROM seen ORDER BY ts DESC LIMIT 10000, the limit
\* being DumpLimit here.
DumpRows(tbl) == ByTsDesc(tbl, keep_keys(tbl, DumpLimit))
Range(q) == {q[i] : i \in 1..Len(q)}

\* An insert that is not stored.
InsertIgnored(tbl, k, ts) == tbl
\* INSERT OR REPLACE INTO seen (key, ts) VALUES (k, ts)
InsertOrReplace(tbl, k, ts) ==
  [j \in DOMAIN tbl \cup {k} |-> IF j = k THEN Row(ts, NextRowid(tbl)) ELSE tbl[j]]
\* A DELETE that removes no row.
DeleteNothing(tbl, keep) == tbl
\* DELETE FROM seen WHERE key NOT IN keep
DeleteNotIn(tbl, keep) == [j \in DOMAIN tbl \cap keep |-> tbl[j]]
\* Lines 521-528 of is_dup: the table after the over-capacity check.
Evict(tbl, cap) ==
  IF Cardinality(DOMAIN tbl) > cap
  THEN LET keep == keep_keys(tbl, cap \div 2)
       IN IF keep # {} THEN DeleteNotIn(tbl, keep) ELSE tbl
  ELSE tbl

\* How many times key k was evicted, by the count n.
Evictions(n, k) == IF k \in DOMAIN n THEN n[k] ELSE 0
\* The count after the rows of the keys `gone` were deleted.
Evicted(n, gone) ==
  [k \in DOMAIN n \cup gone |->
     IF k \in gone THEN Evictions(n, k) + 1 ELSE n[k]]

SetLast(q, f, v) == [q EXCEPT ![Len(q)] = [q[Len(q)] EXCEPT ![f] = v]]

\* ------------------------------------------------------------------ events
\* A NewMessage event, by the attributes the handler reads.  An attribute
\* that is None is written as the empty string or as 0, which the handler
\* treats alike (it tests `x or ...`); event.chat is None when the entity
\* is not in Telethon's cache (chat.some is FALSE).
NoPeer == [kind |-> "None", id |-> 0]
Peer(kind, id) == [kind |-> kind, id |-> id]
\* str() of a peer: "PeerChat(chat_id=1)".
PeerStr(p) ==
  IF p.kind = "None" THEN "None"
  ELSE p.kind \o "("
         \o (CASE p.kind = "PeerChannel" -> "channel_id"
               [] p.kind = "PeerUser"    -> "user_id"
               [] OTHER                  -> "chat_id")
         \o "=" \o ToString(p.id) \o ")"
NoChat == [some |-> FALSE, id |-> 0, username |-> ""]
NoEvent == [raw_text |-> "", message |-> "", chat |-> NoChat, peer_id |-> NoPeer,
            id |-> 0, event_id |-> 0, from_id |-> NoPeer]
\* Message `msg` of the public channel `chat`, with the text `text`, as
\* Telethon delivers it when nothing is missing.
Event(chat, msg, text) ==
  [raw_text |-> text, message |-> text,
   chat |-> [some |-> TRUE, id |-> chat, username |-> "chan" \o ToString(chat)],
   peer_id |-> Peer("PeerChannel", chat),
   id |-> msg, event_id |-> msg, from_id |-> NoPeer]

NoEv == [event |-> NoEvent, chat_id |-> "", msg_id |-> "", text |-> ""]
NoRes == Res(FALSE, "", "", NoPrice, "")
\* A snapshot file: whether it exists, what bytes it holds (none, the
\* whole document of one dump, or bytes that are no document), whether
\* they parse as JSON, the items of the document, and the frame that
\* opened the file last.
NoFile == [exists |-> FALSE, json |-> FALSE, items |-> <<>>, bytes |-> "none",
           by |-> "none"]
\* The file after open(path, "w") by frame f: there, and empty.
Truncated(f) == [exists |-> TRUE, json |-> FALSE, items |-> <<>>,
                 bytes |-> "none", by |-> f]
\* The file holding the document json.dump made of rows, written by f.
Document(f, rows) == [exists |-> TRUE, json |-> TRUE, items |-> rows,
                      bytes |-> "document", by |-> f]
\* The file holding bytes that are no JSON document: the head of f's
\* document alone, or f's bytes over a longer document of another writer,
\* whose tail follows them.
Garbled(f) == [exists |-> TRUE, json |-> FALSE, items |-> <<>>,
               bytes |-> "garbled", by |-> f]
\* A line of the match log: the record of a match, whole and terminated
\* ("whole"); the head of a record that a failed write left, not
\* terminated ("partial"); or such a head with the next record written
\* right after it (`with` is the key of that record), a line that does
\* not parse ("fused").
LogLine(key, price) == [key |-> key, price |-> price, st |-> "whole", with |-> ""]
NoBoot == [up |-> FALSE, snap |-> {}, left |-> {}, table |-> {},
           nEvict |-> [k \in {} |-> 0], ncalls |-> 0, nfrags |-> 0]
Frames == {"main", "sig"}

NoInput == [kind |-> "none"]
Threads == {"t1", "t2"}
NoCall == [pc |-> "idle", key |-> "", at |-> 0, gen |-> 0, keep |-> {},
           lost |-> {}, ncalls |-> 0, began |-> 0]
\* Line 51: the number of attempts, 4 unless the environment says otherwise.
RETRY_SEND_ATTEMPTS == 4
\* No call of bot_send_text yet, `attempts` being the configured number.
NoSend(attempts) ==
  [pc |-> "idle", attempts |-> attempts, attempt |-> 0, last_err |-> "None",
   posts |-> <<>>, sleeps |-> <<>>, ret |-> [ok |-> FALSE, msg |-> ""],
   lock |-> "free"]
\* Two destinations, one, or none (line 124: the program only warns).
TwoDestinations == <<"100", "200">>
OneDestination == <<"100">>
NoDestination == <<>>

\* The state after construction: SeenDB.maxlen one of caps, the text of the
\* event to come written from one of inputs, RETRY_SEND_ATTEMPTS one of
\* attempts and USER_DESTINATIONS one of dests.
InitConf(caps, inputs, attempts, dests) ==
  /\ maxlen \in caps
  /\ input \in inputs
  /\ send \in {NoSend(n) : n \in attempts}
  /\ USER_DESTINATIONS \in dests
  /\ threads = [th \in Threads |-> NoCall]
  /\ seen = EmptyTable
  /\ now = 0
  /\ pc = "idle"
  /\ ev = NoEv
  /\ result = NoRes
  /\ lock = "free"
  /\ sigpc = "none"
  /\ dstage = [f \in Frames |-> "none"]
  /\ drows = [f \in Frames |-> <<>>]
  /\ files = [snapshot |-> NoFile, onexit |-> NoFile, latest |-> "none"]
  /\ matchlog = <<>>
  /\ frags = <<>>
  /\ calls = <<>>
  /\ nEvict = [k \in {} |-> 0]
  /\ flushes = <<>>
  /\ notified = <<>>
  /\ boot = NoBoot
  /\ signalled = FALSE
InitSend(caps, inputs, attempts) ==
  InitConf(caps, inputs, attempts, {TwoDestinations})
InitFrom(caps, inputs) ==
  InitConf(caps, inputs, {RETRY_SEND_ATTEMPTS}, {OneDestination})
\* The state after construction, SeenDB.maxlen being one of caps.
InitWith(caps) == InitSend(caps, {NoInput}, {RETRY_SEND_ATTEMPTS})
Init == InitWith(Caps)


\* ----------------------------------------------------------------- handler
\* The main frame runs only while no signal handler sits on top of it.
MainRuns == sigpc = "none"
InHandler == pc \in {"is_dup", "select", "insert", "count", "ret", "classify",
                     "notify", "sending", "matchlog"}
CurKey == _key(ev.chat_id, ev.msg_id)

\* Lines 612-616: the stripped raw_text or, when that is empty, the
\* stripped message.message.
msg_text(event) ==
  LET t == Strip(event.raw_text)
  IN IF t # "" THEN t ELSE Strip(event.message)
\* Lines 620-626: the id of event.chat or, without it, of the peer: its
\* channel_id, its user_id, or str(peer).  The id is an int or a str; it
\* is kept as its str(), which is all _key takes of it.
chat_id(event) ==
  IF event.chat.some THEN ToString(event.chat.id)
  ELSE IF event.peer_id.kind \in {"PeerChannel", "PeerUser"} /\ event.peer_id.id # 0
       THEN ToString(event.peer_id.id)
       ELSE PeerStr(event.peer_id)
\* hash(text) of a str.  Python salts it per process: in one process equal
\* texts have equal hashes and different texts different ones, and the next
\* process gives other values.  The value is a number out of the range of
\* the message ids, here 10^9 plus the place of the first event of the
\* process that had the text.
hash(text) ==
  LET had == {i \in (boot.nfrags + 1)..Len(frags) : frags[i].text = text}
  IN 1000000000 + (IF had = {} THEN Len(frags) + 1 ELSE MinOf(had))
\* Line 628: message.id, or event.id, or the hash of the text; as its str().
msg_id(event, text) ==
  ToString(IF event.id # 0 THEN event.id
           ELSE IF event.event_id # 0 THEN event.event_id
           ELSE hash(text))

\* Lines 610-628: a NewMessage event is dispatched to the handler, which
\* takes the text, returns at once when it is empty, and works out the ids
\* of the chat and the message.  The clock reads `gap` more than at the
\* event before.
Arrive(event, gap) ==
  /\ pc = "idle" /\ MainRuns
  /\ now' = now + gap
  /\ LET text == msg_text(event)
         frag == [chat |-> event.peer_id.id, msg |-> event.id, at |-> now',
                  st |-> "blank", evals |-> 0, key |-> "", text |-> text,
                  log |-> "", event |-> event]
     IN
       IF text = ""
       THEN /\ frags' = Append(frags, frag)
            /\ UNCHANGED <<pc, ev>>
       ELSE /\ ev' = [event |-> event, chat_id |-> chat_id(event),
                      msg_id |-> msg_id(event, text), text |-> text]
            /\ frags' = Append(frags, [frag EXCEPT !.st = "handling",
                                                   !.key = _key(ev'.chat_id, ev'.msg_id)])
            /\ pc' = "is_dup"
  /\ UNCHANGED <<maxlen, seen, result, lock, sigpc, dstage, drows, files, matchlog,
                 calls, nEvict, flushes, notified, boot, signalled, others>>

\* Lines 510-513: is_dup is entered and takes seen_db.lock.
IsDupEnter ==
  /\ pc = "is_dup" /\ MainRuns
  /\ lock = "free"
  /\ lock' = "is_dup"
  /\ pc' = "select"
  /\ calls' = Append(calls, [key |-> CurKey, res |-> "pending", at |-> now,
                              gen |-> Evictions(nEvict, CurKey), cut |-> FALSE])
  /\ UNCHANGED <<maxlen, seen, now, ev, result, sigpc, dstage, drows, files,
                 matchlog, frags, nEvict, flushes,
                 notified, boot, signalled, others>>

\* A lookup that finds no row.
IsDupSelectBlind ==
  /\ pc = "select" /\ MainRuns
  /\ pc' = "insert"
  /\ UNCHANGED <<maxlen, seen, now, ev, result, lock, sigpc, dstage, drows, files,
                 matchlog, frags, calls, nEvict, flushes,
                 notified, boot, signalled, others>>
\* A lookup that writes the current time on the row it finds.
IsDupSelectRefreshes ==
  /\ pc = "select" /\ MainRuns
  /\ IF CurKey \in DOMAIN seen
     THEN /\ lock' = "free"
          /\ seen' = InsertOrReplace(seen, CurKey, now)
          /\ calls' = SetLast(calls, "res", "dup")
          /\ frags' = SetLast(frags, "st", "dup")
          /\ pc' = "idle"
          /\ ev' = NoEv
     ELSE /\ pc' = "insert"
          /\ UNCHANGED <<seen, lock, calls, frags, ev>>
  /\ UNCHANGED <<maxlen, now, result, sigpc, dstage, drows, files, matchlog,
                 nEvict, flushes, notified, boot, signalled, others>>
\* Lines 515-518 and 630-632: the key is looked up; a duplicate is reported
\* (lock released) and the handler returns.
IsDupSelect ==
  /\ pc = "select" /\ MainRuns
  /\ IF CurKey \in DOMAIN seen
     THEN /\ lock' = "free"
          /\ calls' = SetLast(calls, "res", "dup")
          /\ frags' = SetLast(frags, "st", "dup")
          /\ pc' = "idle"
          /\ ev' = NoEv
     ELSE /\ pc' = "insert"
          /\ UNCHANGED <<lock, calls, frags, ev>>
  /\ UNCHANGED <<maxlen, seen, now, result, sigpc, dstage, drows, files, matchlog,
                 nEvict, flushes, notified, boot, signalled, others>>

\* Lines 519-520: the key is inserted with the time read at line 511 and
\* committed.
IsDupInsert ==
  /\ pc = "insert" /\ MainRuns
  /\ seen' = InsertOrReplace(seen, CurKey, calls[Len(calls)].at)
  /\ pc' = "count"
  /\ UNCHANGED <<maxlen, now, ev, result, lock, sigpc, dstage, drows, files,
                 matchlog, frags, calls, nEvict, flushes,
                 notified, boot, signalled, others>>

\* Lines 521-528: the rows are counted and, over capacity, the table is cut.
IsDupEvict ==
  /\ pc = "count" /\ MainRuns
  /\ seen' = Evict(seen, maxlen)
  /\ LET gone == DOMAIN seen \ DOMAIN seen' IN
       /\ nEvict' = Evicted(nEvict, gone)
       /\ calls' = SetLast(calls, "cut", gone # {})
  /\ pc' = "ret"
  /\ UNCHANGED <<maxlen, now, ev, result, lock, sigpc, dstage, drows, files,
                 matchlog, frags, flushes, notified, boot, signalled, others>>

\* A return of is_dup that keeps the lock.
IsDupReturnHoldingLock ==
  /\ pc = "ret" /\ MainRuns
  /\ calls' = SetLast(calls, "res", "new")
  /\ frags' = SetLast(frags, "st", "new")
  /\ pc' = "classify"
  /\ UNCHANGED <<maxlen, seen, now, ev, result, lock, sigpc, dstage, drows, files,
                 matchlog, nEvict, flushes, notified, boot, signalled, others>>
\* Lines 529-531: is_dup returns False, releasing the lock.
IsDupReturn ==
  /\ pc = "ret" /\ MainRuns
  /\ lock' = "free"
  /\ calls' = SetLast(calls, "res", "new")
  /\ frags' = SetLast(frags, "st", "new")
  /\ pc' = "classify"
  /\ UNCHANGED <<maxlen, seen, now, ev, result, sigpc, dstage, drows, files,
                 matchlog, nEvict, flushes, notified, boot, signalled, others>>

\* The event's text classified together with the previous event of the chat.
buffered_frags ==
  IF Len(frags) > 1 /\ frags[Len(frags) - 1].chat = frags[Len(frags)].chat
  THEN <<Len(frags) - 1, Len(frags)>> ELSE <<Len(frags)>>
\* Lines 611-634: what a handler invocation classifies is the text of its
\* own event, nothing is carried over from an earlier event.
handled_frags == <<Len(frags)>>

\* classify_and_match and find_lowest_price are functions of the text alone:
\* what they give on the texts of the corpus is worked out once and looked
\* up, on any other text it is worked out when asked.
CorpusResults ==
  {[text |-> t, res |-> classify_and_match(t), found |-> find_lowest_price(t)]
     : t \in {Strip(Texts[i]) : i \in 1..Len(Texts)}}
classified(text) ==
  IF \E e \in CorpusResults : e.text = text
  THEN CHOOSE e \in CorpusResults : e.text = text
  ELSE [text |-> text, res |-> classify_and_match(text),
        found |-> find_lowest_price(text)]

\* Line 634 (and 658-660): the message text is classified; an unmatched
\* message is only logged.  The record of the evaluation keeps, for the
\* claims, what the price extractor finds in the text (`found`): the code
\* asks it only past the two block rules.
Classify ==
  /\ pc = "classify" /\ MainRuns
  /\ \E e \in {classified(ev.text)} :
       /\ flushes' = Append(flushes, [chat |-> frags[Len(frags)].chat,
                                      frags |-> handled_frags,
                                      text |-> ev.text, ok |-> e.res.ok,
                                      res |-> e.res, found |-> e.found])
       /\ IF e.res.ok
          THEN /\ result' = e.res
               /\ pc' = "notify"
               /\ UNCHANGED ev
          ELSE /\ result' = NoRes
               /\ pc' = "idle"
               /\ ev' = NoEv
  /\ frags' = SetLast(frags, "evals", frags[Len(frags)].evals + 1)
  /\ UNCHANGED <<maxlen, seen, now, lock, sigpc, dstage, drows, files, matchlog,
                 calls, nEvict, notified, boot, signalled, others>>

\* Line 635: the username of the chat, or the sender (a peer, no str), or
\* "(desconhecido)".
chan(event) ==
  IF event.chat.some /\ event.chat.username # ""
  THEN [str |-> TRUE, val |-> event.chat.username]
  ELSE IF event.from_id.kind # "None"
       THEN [str |-> FALSE, val |-> PeerStr(event.from_id)]
       ELSE [str |-> TRUE, val |-> "(desconhecido)"]
\* Line 636: the channel label shown in the notification: a name gets its
\* "@" unless it has one, anything else is shown as its str().
chan_disp(event) ==
  LET c == chan(event)
  IN IF c.str /\ Ch(c.val, 1) # "@" /\ c.val # "(desconhecido)"
     THEN "@" \o c.val ELSE c.val
\* A rendering without the trailing line.
RenderBare(key, price, text, event) ==
  (IF needs_header(key, price) THEN get_header_text(key) ELSE "") \o text
\* Lines 641-642: header, text and the trailing "via" line (its dash is
\* written --).
Render(key, price, text, event) ==
  (IF needs_header(key, price) THEN get_header_text(key) ELSE "")
    \o text \o "\n\n-- via " \o chan_disp(event)

\* Line 145: bot_send_text is called, last_err = None.
Called(attempts) == [NoSend(attempts) EXCEPT !.pc = "loop"]
\* The record of a notify_all call for the event in hand (gen: how many
\* times its key had been evicted when is_dup was called for it).
Notification ==
  [frag |-> Len(frags), key |-> CurKey, chat |-> frags[Len(frags)].chat,
   gen |-> calls[Len(calls)].gen,
   text |-> Render(result.key, result.price, ev.text, ev.event), sent |-> <<>>]
\* Lines 172-173: the loop of notify_all takes the next destination and
\* calls bot_send_text, or is over when there is none.
NotifyLoop(sent) ==
  IF Len(sent) < Len(USER_DESTINATIONS)
  THEN send' = Called(send.attempts) /\ pc' = "sending"
  ELSE send' = NoSend(send.attempts) /\ pc' = "matchlog"

\* A notification that overtakes the ones emitted before it.
NotifyAllOvertakes ==
  /\ pc = "notify" /\ MainRuns
  /\ notified' = <<Notification>> \o notified
  /\ NotifyLoop(<<>>)
  /\ UNCHANGED <<maxlen, seen, now, ev, result, lock, sigpc, dstage, drows, files,
                 matchlog, frags, calls, nEvict, flushes,
                 boot, signalled, conf>>
\* Lines 640-646 and 171-173: a matched message is rendered and handed to
\* notify_all, which calls bot_send_text for its first destination; with
\* no destination configured it returns at once.
NotifyAll ==
  /\ pc = "notify" /\ MainRuns
  /\ notified' = Append(notified, Notification)
  /\ NotifyLoop(<<>>)
  /\ UNCHANGED <<maxlen, seen, now, ev, result, lock, sigpc, dstage, drows, files,
                 matchlog, frags, calls, nEvict, flushes,
                 boot, signalled, conf>>

\* Lines 173-175: bot_send_text has returned ok for the destination;
\* notify_all logs it and goes on with the next destination.
NotifySent ==
  /\ pc = "sending" /\ MainRuns
  /\ send.pc = "done" /\ send.ret.ok
  /\ LET sent == Append(notified[Len(notified)].sent, TRUE) IN
       /\ notified' = SetLast(notified, "sent", sent)
       /\ NotifyLoop(sent)
  /\ UNCHANGED <<maxlen, seen, now, ev, result, lock, sigpc, dstage, drows, files,
                 matchlog, frags, calls, nEvict, flushes,
                 boot, signalled, conf>>

\* The last line of the log is the head of a record, not terminated.
OpenLine(log) == log # <<>> /\ log[Len(log)].st = "partial"
\* Lines 555-559: the line of the record is written at the end of the
\* file (mode "a").  After a whole line it is a line of its own; after
\* the head a failed write left, it continues that line.
Logged(log, key, price) ==
  IF OpenLine(log)
  THEN [log EXCEPT ![Len(log)] = [log[Len(log)] EXCEPT !.st = "fused", !.with = key]]
  ELSE Append(log, LogLine(key, price))
\* Lines 555-565: the head of the line reaches the file and the rest does
\* not (after a head that is there already, the line is still a head).
PartlyLogged(log, key, price) ==
  IF OpenLine(log) THEN log
  ELSE Append(log, [LogLine(key, price) EXCEPT !.st = "partial"])
\* Lines 649-657: the match is appended to the match log; the handler
\* returns.  The event's record keeps how its line reached the log.
MatchLog ==
  /\ pc = "matchlog" /\ MainRuns
  /\ matchlog' = Logged(matchlog, result.key, result.price)
  /\ frags' = SetLast(frags, "log", IF OpenLine(matchlog) THEN "fused" ELSE "whole")
  /\ pc' = "idle"
  /\ ev' = NoEv
  /\ result' = NoRes
  /\ UNCHANGED <<maxlen, seen, now, lock, sigpc, dstage, drows, files,
                 calls, nEvict, flushes, notified, boot, signalled, others>>


\* ---------------------------------------------------------- dump_to_json
FrameRuns(f) == f = "sig" \/ MainRuns
\* The file a frame's dump goes to: main's finally block writes the
\* .snapshot.json file, _on_exit (atexit or signal) the .onexit.json file.
DumpPath(f) == IF f = "main" /\ pc = "final" THEN "snapshot" ELSE "onexit"

\* Line 534: the frame takes seen_db.lock (a non-reentrant threading.Lock).
DumpAcquire(f) ==
  /\ dstage[f] = "acquire" /\ FrameRuns(f)
  /\ lock = "free"
  /\ lock' = f
  /\ dstage' = [dstage EXCEPT ![f] = "read"]
  /\ UNCHANGED <<maxlen, seen, now, pc, ev, result, sigpc, drows, files, matchlog,
                 frags, calls, nEvict, flushes, notified,
                 boot, signalled, others>>

\* Lines 535-539: the newest rows are read and the lock is released.
DumpRead(f) ==
  /\ dstage[f] = "read" /\ FrameRuns(f)
  /\ drows' = [drows EXCEPT ![f] = DumpRows(seen)]
  /\ lock' = "free"
  /\ dstage' = [dstage EXCEPT ![f] = "open"]
  /\ UNCHANGED <<maxlen, seen, now, pc, ev, result, sigpc, files, matchlog,
                 frags, calls, nEvict, flushes, notified,
                 boot, signalled, others>>

\* Line 541: open(path, "w") makes the file, or empties the one there.
DumpOpen(f) ==
  /\ dstage[f] = "open" /\ FrameRuns(f)
  /\ files' = [files EXCEPT ![DumpPath(f)] = Truncated(f), !.latest = DumpPath(f)]
  /\ dstage' = [dstage EXCEPT ![f] = "write"]
  /\ UNCHANGED <<maxlen, seen, now, pc, ev, result, lock, sigpc, drows, matchlog,
                 frags, calls, nEvict, flushes, notified, boot, signalled, others>>

\* Lines 541-543: json.dump writes the rows and the with block closes the
\* file, which is when the document reaches it, from the start of the
\* file on.  When another frame has opened the file since (a signal's
\* _on_exit on top of the atexit one, both writing .onexit.json) and left
\* its own document there, the bytes of f replace the head of that
\* document: what results is f's document when it is at least as long
\* (the two differ in the digits of "ts"), and no JSON document otherwise.
DumpWrite(f) ==
  /\ dstage[f] = "write" /\ FrameRuns(f)
  /\ \E whole \in (IF files[DumpPath(f)].by = f THEN {TRUE} ELSE BOOLEAN) :
       files' = [files EXCEPT ![DumpPath(f)] =
                   IF whole THEN Document(f, drows[f]) ELSE Garbled(f),
                              !.latest = DumpPath(f)]
  /\ drows' = [drows EXCEPT ![f] = <<>>]
  /\ dstage' = [dstage EXCEPT ![f] = "none"]
  /\ UNCHANGED <<maxlen, seen, now, pc, ev, result, lock, sigpc, matchlog,
                 frags, calls, nEvict, flushes, notified, boot, signalled, others>>

\* --------------------------------------------------------------- lifecycle
\* Lines 691-692 and 678-681: SIGTERM or SIGINT arrives; Python runs _on_exit
\* in the main thread, on top of whatever frame it was executing (a post in
\* flight and the sleep between two attempts included).
Signal ==
  /\ sigpc = "none"
  /\ pc # "exited"
  /\ ~signalled
  /\ signalled' = TRUE
  /\ sigpc' = "onexit"
  /\ dstage' = [dstage EXCEPT !.sig = "acquire"]
  /\ UNCHANGED <<maxlen, seen, now, pc, ev, result, lock, drows, files, matchlog,
                 frags, calls, nEvict, flushes, notified,
                 boot, others>>

\* A signal handler whose return abandons the interrupted handler invocation.
SigReturnAbandons ==
  /\ sigpc = "onexit"
  /\ dstage.sig = "none"
  /\ sigpc' = "none"
  /\ pc' = IF InHandler THEN "idle" ELSE pc
  /\ ev' = IF InHandler THEN NoEv ELSE ev
  /\ result' = IF InHandler THEN NoRes ELSE result
  /\ send' = IF InHandler THEN NoSend(send.attempts) ELSE send
  /\ UNCHANGED <<maxlen, seen, now, lock, dstage, drows, files,
                 matchlog, frags, calls, nEvict, flushes,
                 notified, boot, signalled, conf>>
\* Lines 684-688: _on_exit writes the health file and returns; the
\* interrupted frame resumes (the handler does not exit the process).
SigReturn ==
  /\ sigpc = "onexit"
  /\ dstage.sig = "none"
  /\ sigpc' = "none"
  /\ UNCHANGED <<maxlen, seen, now, pc, ev, result, lock, dstage, drows, files,
                 matchlog, frags, calls, nEvict, flushes,
                 notified, boot, signalled, others>>

\* Lines 664-671: run_until_disconnected returns and main's finally block
\* starts the final dump.
Disconnect ==
  /\ pc = "idle" /\ MainRuns
  /\ pc' = "final"
  /\ dstage' = [dstage EXCEPT !.main = "acquire"]
  /\ UNCHANGED <<maxlen, seen, now, ev, result, lock, sigpc, drows, files,
                 matchlog, frags, calls, nEvict, flushes,
                 notified, boot, signalled, others>>

\* Lines 690 and 678-681: main has returned; the interpreter runs the atexit
\* hook _on_exit, which dumps again.
MainReturn ==
  /\ pc = "final" /\ MainRuns
  /\ dstage.main = "none"
  /\ pc' = "atexit"
  /\ dstage' = [dstage EXCEPT !.main = "acquire"]
  /\ UNCHANGED <<maxlen, seen, now, ev, result, lock, sigpc, drows, files,
                 matchlog, frags, calls, nEvict, flushes,
                 notified, boot, signalled, others>>

\* Lines 684-688: the atexit hook is done and the process is gone.
AtExitDone ==
  /\ pc = "atexit" /\ MainRuns
  /\ dstage.main = "none"
  /\ pc' = "exited"
  /\ UNCHANGED <<maxlen, seen, now, ev, result, lock, sigpc, dstage, drows, files,
                 matchlog, frags, calls, nEvict, flushes,
                 notified, boot, signalled, others>>

\* The items of the latest snapshot file (none when the file is empty).
LatestItems(fs) == IF fs.latest = "none" THEN <<>> ELSE fs[fs.latest].items
\* A start that rebuilds the table from the latest snapshot file, whose
\* items are listed from the newest.
TableFromSnapshot(tbl, fs) ==
  LET items == LatestItems(fs)
  IN [k \in Range(items) |->
        LET i == CHOOSE n \in 1..Len(items) : items[n] = k
        IN Row(Len(items) - i, Len(items) - i + 1)]
\* Line 547 (SeenDB.__init__, _init_db): the process is killed, or has
\* exited, and is started again.  The sqlite file and the snapshot files
\* are what the old process left; CREATE TABLE IF NOT EXISTS keeps the rows.
TableAtStart(tbl, fs) == tbl
Restart ==
  /\ ~boot.up
  /\ seen' = TableAtStart(seen, files)
  /\ pc' = "idle"
  /\ ev' = NoEv
  /\ result' = NoRes
  /\ lock' = "free"
  /\ sigpc' = "none"
  /\ send' = NoSend(send.attempts)
  /\ dstage' = [f \in Frames |-> "none"]
  /\ drows' = [f \in Frames |-> <<>>]
  /\ frags' = IF InHandler THEN SetLast(frags, "st", "aborted") ELSE frags
  /\ calls' = IF calls # <<>> /\ calls[Len(calls)].res = "pending"
              THEN SetLast(calls, "res", "aborted") ELSE calls
  /\ boot' = [up |-> TRUE,
              snap |-> Range(LatestItems(files)),
              left |-> DOMAIN seen,
              table |-> DOMAIN seen',
              nEvict |-> nEvict,
              ncalls |-> Len(calls),
              nfrags |-> Len(frags)]
  /\ UNCHANGED <<maxlen, now, files, matchlog, nEvict, flushes, notified,
                 signalled, conf>>

\* ------------------------------------------- is_dup called from threads
\* SeenDB.is_dup called directly by several threads at once (the lock of
\* SeenDB is there for such callers; the handler itself never calls it
\* concurrently).  Each thread makes up to CallsPerThread calls; a call is
\* the steps of lines 509-531, one SQL statement at a time.
ThreadKeys == {_key("1", "1"), _key("1", "2"), _key("2", "1")}
Call(th) == threads[th]
Others == <<pc, ev, result, sigpc, dstage, drows, files, matchlog, frags,
            flushes, notified, boot, signalled, input, send, USER_DESTINATIONS>>

\* Lines 509-511: the call starts; the key is built and the clock read,
\* before the lock is asked for.  began: how many calls had returned by
\* then (the calls that return later than that overlap with this one).
TCall(th, k, gap) ==
  /\ Call(th).pc = "idle"
  /\ Call(th).ncalls < CallsPerThread
  /\ now' = now + gap
  /\ threads' = [threads EXCEPT ![th] =
                   [pc |-> "wait", key |-> k, at |-> now', gen |-> 0, keep |-> {},
                    lost |-> {}, ncalls |-> Call(th).ncalls + 1,
                    began |-> Len(calls)]]
  /\ UNCHANGED <<maxlen, seen, lock, calls, nEvict, Others>>

\* Line 512: with self.lock, the thread waits until the lock is free.
TAcquire(th) ==
  /\ Call(th).pc = "wait"
  /\ lock = "free"
  /\ lock' = th
  /\ threads' = [threads EXCEPT ![th].pc = "select"]
  /\ UNCHANGED <<maxlen, seen, now, calls, nEvict, Others>>

\* Lines 515-518: the key is looked up; found, True is returned and the
\* lock released.
TSelect(th) ==
  /\ Call(th).pc = "select"
  /\ IF Call(th).key \in DOMAIN seen
     THEN /\ lock' = "free"
          /\ calls' = Append(calls, [key |-> Call(th).key, res |-> "dup",
                                     at |-> Call(th).at,
                                     gen |-> Evictions(nEvict, Call(th).key),
                                     cut |-> FALSE, began |-> Call(th).began])
          /\ threads' = [threads EXCEPT ![th].pc = "idle"]
     ELSE /\ threads' = [threads EXCEPT ![th].pc = "insert",
                                        ![th].gen = Evictions(nEvict, Call(th).key)]
          /\ UNCHANGED <<lock, calls>>
  /\ UNCHANGED <<maxlen, seen, now, nEvict, Others>>

\* Lines 519-520: the key is inserted with the time read at the call's start.
TInsert(th) ==
  /\ Call(th).pc = "insert"
  /\ seen' = InsertOrReplace(seen, Call(th).key, Call(th).at)
  /\ threads' = [threads EXCEPT ![th].pc = "count"]
  /\ UNCHANGED <<maxlen, now, lock, calls, nEvict, Others>>

\* Lines 521-525: the rows are counted and, over capacity, the keys to keep
\* are read.
TCount(th) ==
  /\ Call(th).pc = "count"
  /\ IF Cardinality(DOMAIN seen) > maxlen
     THEN LET keep == keep_keys(seen, maxlen \div 2) IN
            threads' = [threads EXCEPT ![th].keep = keep,
                                       ![th].pc = IF keep # {} THEN "delete" ELSE "ret"]
     ELSE threads' = [threads EXCEPT ![th].pc = "ret"]
  /\ UNCHANGED <<maxlen, seen, now, lock, calls, nEvict, Others>>

\* Lines 526-528: every row whose key is not one of the keys read is
\* deleted.  lost: the rows deleted although they were among the newest
\* maxlen // 2 of the table at that moment.
TDelete(th) ==
  /\ Call(th).pc = "delete"
  /\ seen' = DeleteNotIn(seen, Call(th).keep)
  /\ LET gone == DOMAIN seen \ DOMAIN seen' IN
       /\ nEvict' = Evicted(nEvict, gone)
       /\ threads' = [threads EXCEPT
                        ![th].pc = "ret",
                        ![th].lost = gone \cap keep_keys(seen, maxlen \div 2)]
  /\ UNCHANGED <<maxlen, now, lock, calls, Others>>

\* Lines 529-531: False is returned and the lock released.
TReturn(th) ==
  /\ Call(th).pc = "ret"
  /\ lock' = "free"
  /\ calls' = Append(calls, [key |-> Call(th).key, res |-> "new", at |-> Call(th).at,
                             gen |-> Call(th).gen, cut |-> Call(th).keep # {},
                             began |-> Call(th).began])
  /\ threads' = [threads EXCEPT ![th].pc = "idle"]
  /\ UNCHANGED <<maxlen, seen, now, nEvict, Others>>


\* ------------------------------------------------------------ bot_send_text
\* What one post can come to: a status 200 whose body is a JSON object with
\* ok true, with ok false, a JSON list, or no JSON; another status; an
\* exception of requests (timeout, connection refused).
Outcomes == {"200-ok", "200-not-ok", "200-list", "200-non-json",
             "429", "503", "404", "exception"}
\* Lines 150-164: the error an outcome leaves in last_err.  j.get of a body
\* that is no object raises, and the outer except takes its repr.
ErrOf(o) ==
  CASE o = "200-not-ok" -> "api-error"
    [] o = "200-list"   -> "repr(e)"
    [] o = "429"        -> "transient-http-429"
    [] o = "503"        -> "transient-http-503"
    [] o = "404"        -> "status=404"
    [] o = "exception"  -> "repr(e)"
    [] OTHER            -> "None"
\* Lines 152-157: the outcomes that return True.
Succeeds(o) == o \in {"200-ok", "200-non-json"}
SendRest == <<maxlen, seen, now, pc, ev, result, lock, sigpc, dstage, drows,
              files, matchlog, frags, calls, nEvict, flushes, notified, boot,
              signalled, conf>>

\* Lines 144-146: bot_send_text is called on its own, outside the handler.
SendCall ==
  /\ pc = "idle" /\ MainRuns
  /\ send.pc \in {"idle", "done"}
  /\ send' = Called(send.attempts)
  /\ UNCHANGED SendRest
\* Lines 147-150: range() gives one more attempt; _send_lock is taken and
\* the post goes out.
SendPost ==
  /\ send.pc = "loop" /\ MainRuns
  /\ send.attempt < send.attempts
  /\ send.lock = "free"
  /\ send' = [send EXCEPT !.pc = "inflight", !.lock = "held"]
  /\ UNCHANGED SendRest
\* Lines 150-164: the post ends with outcome o and _send_lock is released;
\* a success returns at once, everything else is kept in last_err.
SendResponse(o) ==
  /\ send.pc = "inflight" /\ MainRuns
  /\ send' = [send EXCEPT
        !.lock = "free",
        !.posts = Append(@, o),
        !.pc = IF Succeeds(o) THEN "done" ELSE "backoff",
        !.ret = IF o = "200-ok" THEN [ok |-> TRUE, msg |-> "ok"]
                ELSE IF o = "200-non-json" THEN [ok |-> TRUE, msg |-> "ok (non-json)"]
                ELSE @,
        !.last_err = IF Succeeds(o) THEN @ ELSE ErrOf(o)]
  /\ UNCHANGED SendRest
\* Lines 166-167: the sleep after every attempt but the last, and on to
\* the next turn of the loop.
SendBackoffAlways ==
  /\ send.pc = "backoff" /\ MainRuns
  /\ send' = [send EXCEPT
        !.sleeps = Append(@, send.attempt),
        !.attempt = @ + 1,
        !.pc = "loop"]
  /\ UNCHANGED SendRest
SendBackoff ==
  /\ send.pc = "backoff" /\ MainRuns
  /\ send' = [send EXCEPT
        !.sleeps = IF send.attempt + 1 < send.attempts
                   THEN Append(@, send.attempt) ELSE @,
        !.attempt = @ + 1,
        !.pc = "loop"]
  /\ UNCHANGED SendRest
\* Line 168: range() is used up.
SendExhausted ==
  /\ send.pc = "loop" /\ MainRuns
  /\ send.attempt >= send.attempts
  /\ send' = [send EXCEPT
        !.pc = "done",
        !.ret = [ok |-> FALSE,
                 msg |-> IF send.last_err = "None" THEN "unknown-error"
                         ELSE send.last_err]]
  /\ UNCHANGED SendRest


\* ------------------------------------------------------------ I/O failures
\* An exception that leaves is_dup with the lock still held.
IsDupFailsHoldingLock ==
  /\ pc \in {"select", "insert", "count"} /\ MainRuns
  /\ calls' = SetLast(calls, "res", "error")
  /\ frags' = SetLast(frags, "st", "failed")
  /\ pc' = "idle"
  /\ ev' = NoEv
  /\ UNCHANGED <<maxlen, seen, now, result, lock, sigpc, dstage, drows, files,
                 matchlog, nEvict, flushes, notified, boot, signalled, others>>
\* Lines 512-531 and 661-662: a statement of is_dup raises (sqlite3.Error).
\* The with block releases the lock, the connection is closed, and the
\* handler's except clause logs "Handler exception": the handler returns.
\* What was committed before the failing statement stays in the table.
IsDupFails ==
  /\ pc \in {"select", "insert", "count"} /\ MainRuns
  /\ lock' = "free"
  /\ calls' = SetLast(calls, "res", "error")
  /\ frags' = SetLast(frags, "st", "failed")
  /\ pc' = "idle"
  /\ ev' = NoEv
  /\ UNCHANGED <<maxlen, seen, now, result, sigpc, dstage, drows, files,
                 matchlog, nEvict, flushes, notified, boot, signalled, others>>

\* A failed delivery that takes the key out of the table again.
NotifyFailsUnmarks ==
  /\ pc = "sending" /\ MainRuns
  /\ send.pc = "done" /\ ~send.ret.ok
  /\ frags' = SetLast(frags, "st", "unsent")
  /\ seen' = DeleteNotIn(seen, DOMAIN seen \ {CurKey})
  /\ LET sent == Append(notified[Len(notified)].sent, FALSE) IN
       /\ notified' = SetLast(notified, "sent", sent)
       /\ NotifyLoop(sent)
  /\ UNCHANGED <<maxlen, now, ev, result, lock, sigpc, dstage, drows, files,
                 matchlog, calls, nEvict, flushes, boot, signalled, conf>>
\* Lines 173-177: bot_send_text has given up on the destination (none of
\* its attempts succeeded); notify_all logs the error and goes on with the
\* next destination.
NotifyFails ==
  /\ pc = "sending" /\ MainRuns
  /\ send.pc = "done" /\ ~send.ret.ok
  /\ frags' = SetLast(frags, "st", "unsent")
  /\ LET sent == Append(notified[Len(notified)].sent, FALSE) IN
       /\ notified' = SetLast(notified, "sent", sent)
       /\ NotifyLoop(sent)
  /\ UNCHANGED <<maxlen, seen, now, ev, result, lock, sigpc, dstage, drows, files,
                 matchlog, calls, nEvict, flushes, boot, signalled, conf>>

\* Lines 553-565: the match log cannot be written; append_match_log logs
\* the error and the handler returns.  Either the file could not be
\* opened or no byte reached it, or the head of the line did (disk full,
\* file size limit) and stays in the file, not terminated.
MatchLogFails ==
  /\ pc = "matchlog" /\ MainRuns
  /\ \E part \in BOOLEAN :
       /\ matchlog' = IF part THEN PartlyLogged(matchlog, result.key, result.price)
                      ELSE matchlog
       /\ frags' = SetLast(frags, "log", IF part THEN "partial" ELSE "none")
  /\ pc' = "idle"
  /\ ev' = NoEv
  /\ result' = NoRes
  /\ UNCHANGED <<maxlen, seen, now, lock, sigpc, dstage, drows, files,
                 calls, nEvict, flushes, notified, boot, signalled, others>>

\* Lines 534-539 and 680-683: the SELECT of dump_to_json raises; the with
\* block releases the lock and the caller (_on_exit, main's finally) logs
\* the error: the dump is over, no file touched.
DumpReadFails(f) ==
  /\ dstage[f] = "read" /\ FrameRuns(f)
  /\ lock' = "free"
  /\ dstage' = [dstage EXCEPT ![f] = "none"]
  /\ UNCHANGED <<maxlen, seen, now, pc, ev, result, sigpc, drows, files, matchlog,
                 frags, calls, nEvict, flushes, notified, boot, signalled, others>>

\* Lines 540-545: the snapshot file cannot be opened (no such directory, no
\* permission); dump_to_json logs the error and returns, no file touched.
DumpOpenFails(f) ==
  /\ dstage[f] = "open" /\ FrameRuns(f)
  /\ drows' = [drows EXCEPT ![f] = <<>>]
  /\ dstage' = [dstage EXCEPT ![f] = "none"]
  /\ UNCHANGED <<maxlen, seen, now, pc, ev, result, lock, sigpc, files, matchlog,
                 frags, calls, nEvict, flushes, notified, boot, signalled, others>>

\* Lines 540-545: the rows cannot be written to the file that was opened
\* (disk full, file size limit); dump_to_json logs the error and returns.
\* Either no byte reached the file, which stays as it was (empty after
\* f's open, or holding what another frame wrote since), or the head of
\* the document did, from the start of the file on and over what was
\* there: the file holds no JSON document.
DumpWriteFails(f) ==
  /\ dstage[f] = "write" /\ FrameRuns(f)
  /\ \E part \in BOOLEAN :
       files' = IF part
                THEN [files EXCEPT ![DumpPath(f)] = Garbled(f),
                                   !.latest = DumpPath(f)]
                ELSE files
  /\ drows' = [drows EXCEPT ![f] = <<>>]
  /\ dstage' = [dstage EXCEPT ![f] = "none"]
  /\ UNCHANGED <<maxlen, seen, now, pc, ev, result, lock, sigpc, matchlog,
                 frags, calls, nEvict, flushes, notified, boot, signalled, others>>


\* ----------------------------------------------------------- specification
\* The events of the corpus as Telethon delivers them when nothing is
\* missing, and captionless (blank) ones.
CorpusEvent(c, m) == Event(c, m, TextOf(c, m))
\* The first message of chat 1 delivered with something missing: the chat
\* not in the cache (of a channel, of a basic group), raw_text empty, no
\* message id, a chat that has no username (the sender known or not).
OddEvents ==
  LET e == CorpusEvent(1, 1) IN
    {[e EXCEPT !.chat = NoChat],
     [e EXCEPT !.chat = NoChat, !.peer_id = Peer("PeerChat", 1)],
     [e EXCEPT !.raw_text = ""],
     [e EXCEPT !.id = 0, !.event_id = 0],
     [e EXCEPT !.chat.username = ""],
     [e EXCEPT !.chat.username = "", !.from_id = Peer("PeerUser", 7)]}
\* The clock between two events: one time unit as a rule; the wall clock
\* can also be stepped back (-1), or there is a long pause (10).  (It
\* stands still in CacheSpec, UnsentSpec and ConcSpec.)
OddGaps == {-1, 10}
\* Every event so far came one time unit after the one before.
Steady == now = Len(frags)
OddSoFar == {frags[i].event : i \in 1..Len(frags)} \cap OddEvents
\* The clock has read oddly once at most, and then before a message of
\* chat 2 that was not the first event.
OddGapAt(c) == c = 2 /\ frags # <<>> /\ Steady
\* Inbound events.  A behaviour has at most one irregularity: one odd gap
\* of the clock, or one odd event, which is the first event and can be
\* delivered again.
Inbound ==
  \/ \E c \in Chats, m \in MsgIds, gap \in {1} \cup OddGaps :
       /\ Len(frags) < MaxArrivals
       /\ gap = 1 \/ (OddGapAt(c) /\ OddSoFar = {})
       /\ Arrive(CorpusEvent(c, m), gap)
  \/ Len(frags) < MaxArrivals /\ Arrive(Event(1, 1, BlankText), 1)
  \/ \E e \in OddEvents :
       /\ Len(frags) < MaxArrivals
       /\ Steady /\ (frags = <<>> \/ OddSoFar = {e})
       /\ Arrive(e, 1)
\* A delivery that succeeds: every post is answered 200 with ok true.
Delivery == SendPost \/ SendResponse("200-ok") \/ NotifySent
HandlerStep ==
  \/ IsDupEnter \/ IsDupSelect \/ IsDupInsert \/ IsDupEvict \/ IsDupReturn
  \/ Classify \/ NotifyAll \/ Delivery \/ MatchLog
Lifecycle ==
  \/ Signal \/ SigReturn \/ Disconnect \/ MainReturn \/ AtExitDone \/ Restart
  \/ \E f \in Frames : DumpAcquire(f) \/ DumpRead(f) \/ DumpOpen(f) \/ DumpWrite(f)

\* The handler alone: every inbound event is handled to the end.
Next == Inbound \/ HandlerStep
Spec == Init /\ [][Next]_vars

\* The handler with the process lifecycle around it: one signal, a
\* disconnect with the shutdown path, and one kill-and-restart, at any
\* point.  Events come one time unit apart, one fewer than in Spec, and
\* are the messages of chat 1 and the first message of chat 2.
InboundLife ==
  \E c \in Chats, m \in MsgIds :
    /\ Len(frags) < MaxArrivals - 1
    /\ c = 1 \/ m = 1
    /\ Arrive(CorpusEvent(c, m), 1)
NextLife == InboundLife \/ HandlerStep \/ Lifecycle
LifeSpec == Init /\ [][NextLife]_vars

\* The cache one step beyond the largest maximum of Spec, with enough calls
\* to fill it, hit a stored key again and overflow it.  Keys are taken in
\* a fixed order: an event is of a key already used or of the next new one.
KeyIndex(c, m) == (c - 1) * Cardinality(MsgIds) + m
UsedKeys == {calls[i].key : i \in 1..Len(calls)}
InboundCache ==
  \E c \in CacheChats, m \in MsgIds, gap \in {0, 1} :
    /\ Len(frags) < MaxArrivals + 2
    /\ KeyIndex(c, m) <= Cardinality(UsedKeys) + 1
    /\ Arrive(CorpusEvent(c, m), gap)
NextCache == InboundCache \/ HandlerStep
CacheSpec == InitWith({MaxCap + 1}) /\ [][NextCache]_vars

\* The classifier on the offers of ClassifyInputs: the offer is posted in
\* one chat and then in the other.
InboundOffer ==
  \E c \in Chats :
    /\ input \in ClassifyInputs
    /\ c = Len(frags) + 1
    /\ Arrive(Event(c, 1, OfferText(input)), 1)
NextClassify == InboundOffer \/ HandlerStep
ClassifySpec == InitFrom({2}, ClassifyInputs) /\ [][NextClassify]_vars

\* The classifier on the offers that hold one figure, in every way of
\* writing it, posted as the offers of ClassifySpec are.
InboundFigure ==
  \E c \in Chats :
    /\ input \in FigureInputs
    /\ c = Len(frags) + 1
    /\ Arrive(Event(c, 1, OfferText(input)), 1)
NextFigure == InboundFigure \/ HandlerStep
FigureSpec == InitFrom({2}, FigureInputs) /\ [][NextFigure]_vars

\* The handler over one kill-and-restart, with a signal (whose handler
\* dumps the table) at any point before or after it.  There are enough
\* events to fill the table, have it cut, and call is_dup again after the
\* restart for a key that was cut and for one that was not; keys are taken
\* in a fixed order, as in CacheSpec.
InboundRestart ==
  \E c \in Chats, m \in MsgIds :
    /\ Len(frags) < MaxArrivals + 1
    /\ KeyIndex(c, m) <= Cardinality(UsedKeys) + 1
    /\ Arrive(CorpusEvent(c, m), 1)
NextRestart ==
  \/ InboundRestart \/ HandlerStep
  \/ Signal \/ SigReturn \/ Restart
  \/ \E f \in Frames : DumpAcquire(f) \/ DumpRead(f) \/ DumpOpen(f) \/ DumpWrite(f)
RestartSpec == InitFrom(Caps, {NoInput}) /\ [][NextRestart]_vars

\* A delivery that fails: a post is answered 503, bot_send_text sleeps and
\* tries again, and gives up after the last attempt.
DeliveryFails == SendResponse("503") \/ SendBackoff \/ SendExhausted \/ NotifyFails
\* The handler alone, every post able to fail.  The events are the ones of
\* the corpus, one time unit apart, the clock standing still or stepped
\* back once.
InboundUnsent ==
  \E c \in Chats, m \in MsgIds, gap \in {-1, 0, 1} :
    /\ Len(frags) < MaxArrivals
    /\ gap = 1 \/ OddGapAt(c)
    /\ Arrive(CorpusEvent(c, m), gap)
NextUnsent == InboundUnsent \/ HandlerStep \/ DeliveryFails
UnsentSpec ==
  InitConf(Caps, {NoInput}, {2}, {TwoDestinations}) /\ [][NextUnsent]_vars

\* bot_send_text called again and again, every post with any outcome, the
\* number of attempts configured from none to the default.
NextSend ==
  \/ SendCall
  \/ SendPost
  \/ \E o \in Outcomes : SendResponse(o)
  \/ SendBackoff
  \/ SendExhausted
SendSpec == InitSend({MaxCap}, {NoInput}, 0..RETRY_SEND_ATTEMPTS) /\ [][NextSend]_vars

\* SeenDB alone, its is_dup called by the threads at any interleaving, the
\* clock advancing by one between two calls or, once, standing still.
CallsMade == Call("t1").ncalls + Call("t2").ncalls
NextConc ==
  \E th \in Threads :
    \/ \E k \in ThreadKeys, gap \in {0, 1} :
         (gap = 1 \/ now = CallsMade) /\ TCall(th, k, gap)
    \/ TAcquire(th) \/ TSelect(th) \/ TInsert(th) \/ TCount(th)
    \/ TDelete(th) \/ TReturn(th)
ConcSpec == InitWith({2, 3}) /\ [][NextConc]_vars

\* The handler with every I/O step able to fail, and a signal (whose
\* handler dumps the table) at any point.  Events as in LifeSpec; there
\* is one destination or none, and the maximum is the smallest or the
\* largest one.
Faults ==
  \/ IsDupFails \/ DeliveryFails \/ MatchLogFails
  \/ \E f \in Frames : DumpReadFails(f) \/ DumpOpenFails(f) \/ DumpWriteFails(f)
NextFault ==
  \/ InboundLife \/ HandlerStep \/ Faults
  \/ Signal \/ SigReturn
  \/ \E f \in Frames : DumpAcquire(f) \/ DumpRead(f) \/ DumpOpen(f) \/ DumpWrite(f)
FaultSpec ==
  InitConf({2, MaxCap}, {NoInput}, {2}, {OneDestination, NoDestination})
    /\ [][NextFault]_vars


\* ------------------------------------------------------------------ claims
\* The flushes (classifier evaluations) that contain fragment i.
FlushesOf(i) ==
  {f \in 1..Len(flushes) :
     \E n \in 1..Len(flushes[f].frags) : flushes[f].frags[n] = i}
\* Fragment i was accepted (is_dup reported it new) and its handler invocation
\* is past the classification.
Evaluated(i) == frags[i].st = "new" /\ (i < Len(frags) \/ pc # "classify")

\* C1: of two consecutive is_dup calls with the same (chat, message) pair,
\* the first reporting the pair new, the second reports it a duplicate:
\* never new and then new, also when the first call's insert cut the table.
C1_NewThenDuplicate ==
  \A i \in 1..(Len(calls) - 1) :
    (calls[i].key = calls[i + 1].key /\ calls[i].res = "new")
      => calls[i + 1].res \in {"pending", "dup"}

\* C2 as stated: the notifier is invoked for at most one delivery of a
\* (chat, message) pair.
C2_AtMostOnce ==
  \A i, j \in 1..Len(notified) : notified[i].key = notified[j].key => i = j
\* C2 amended: two notifications of the same pair (the chat_id and msg_id
\* the handler works out for the event) happen only when the pair was
\* evicted from the table between the is_dup call of the first and the
\* is_dup call of the second.
C2_AtMostOncePerResidence ==
  \A i, j \in 1..Len(notified) :
    (i < j /\ notified[i].key = notified[j].key)
      => notified[i].gen < notified[j].gen
\* A message notified, evicted by the insert of a later message, delivered
\* again and notified again.
C2_Witness ==
  \E i, j \in 1..Len(notified) :
    /\ i < j /\ notified[i].key = notified[j].key
    /\ notified[i].gen + 1 = notified[j].gen
    /\ \E c \in 1..Len(calls) : calls[c].cut /\ calls[c].key # notified[i].key

\* C3 as stated (quiet window 4): two evaluated fragments of one chat, with
\* no fragment of the chat between them, are in one and the same flush when
\* they arrived less than the window apart, and in two flushes otherwise.
C3_Windowing ==
  LET QuietWindow == 4 IN
  \A i, j \in 1..Len(frags) :
    (/\ i < j /\ frags[i].chat = frags[j].chat
     /\ Evaluated(i) /\ Evaluated(j)
     /\ \A k \in (i + 1)..(j - 1) : frags[k].chat # frags[i].chat)
      => IF frags[j].at - frags[i].at < QuietWindow
         THEN /\ FlushesOf(i) = FlushesOf(j)
              /\ Cardinality(FlushesOf(i)) = 1
              /\ \A f \in FlushesOf(i) : flushes[f].frags = <<i, j>>
         ELSE FlushesOf(i) \cap FlushesOf(j) = {}
\* C3 amended: there is no quiet window; every evaluation is of exactly one
\* fragment and of its stripped text alone, so two accepted fragments of a
\* chat are evaluated in two independent evaluations, 1 or 10 time units
\* apart alike.
C3_OneFragmentPerFlush ==
  /\ \A f \in 1..Len(flushes) :
       /\ Len(flushes[f].frags) = 1
       /\ LET i == flushes[f].frags[1] IN
            /\ flushes[f].chat = frags[i].chat
            /\ flushes[f].text = Strip(frags[i].event.message)
  /\ \A i, j \in 1..Len(frags) :
       (i < j /\ frags[i].chat = frags[j].chat /\ Evaluated(i) /\ Evaluated(j))
         => FlushesOf(i) \cap FlushesOf(j) = {}
\* Two fragments of a chat 1 apart and two fragments of a chat 10 apart,
\* each of the four evaluated in a flush of its own.
C3_Witness ==
  \E i, j, k, l \in 1..Len(frags) :
    /\ i < j /\ frags[i].chat = frags[j].chat /\ frags[j].at - frags[i].at = 1
    /\ k < l /\ frags[k].chat = frags[l].chat /\ frags[l].at - frags[k].at = 10
    /\ \A n \in {i, j, k, l} : Evaluated(n) /\ Cardinality(FlushesOf(n)) = 1
    /\ FlushesOf(i) # FlushesOf(j) /\ FlushesOf(k) # FlushesOf(l)

\* C4: whatever runs between the arrival of a fragment and its evaluation
\* (a signal handler on top of the handler, other events, a dump), a
\* fragment that passed the duplicate check is evaluated in exactly one
\* flush, and no other fragment is evaluated at all.
C4_ExactlyOneFlush ==
  \A i \in 1..Len(frags) :
    /\ Cardinality(FlushesOf(i)) = frags[i].evals
    /\ frags[i].evals <= 1
    /\ Evaluated(i) => frags[i].evals = 1
    /\ frags[i].st \in {"blank", "dup", "handling"} => frags[i].evals = 0
\* A signal handler ran on top of a handler invocation, between the insert
\* of its key and its notification (the snapshot it wrote holds the key),
\* and the fragment was evaluated once, as was an earlier one of the chat.
C4_Witness ==
  /\ pc = "notify" /\ sigpc = "none" /\ files.onexit.json
  /\ CurKey \in Range(files.onexit.items)
  /\ frags[Len(frags)].evals = 1
  /\ \E i \in 1..(Len(frags) - 1) :
       /\ frags[i].chat = frags[Len(frags)].chat
       /\ frags[i].msg # frags[Len(frags)].msg
       /\ Evaluated(i) /\ frags[i].evals = 1

\* C5: a key that was inserted is reported new again only after an eviction
\* removed it: two calls reporting the same key new have an eviction of
\* that key between them.
C5_NewOnlyAfterEviction ==
  \A i, j \in 1..Len(calls) :
    (/\ i < j /\ calls[i].key = calls[j].key
     /\ calls[i].res = "new" /\ calls[j].res = "new")
      => calls[i].gen < calls[j].gen
\* A key reported new, evicted by the insert of another key, and then
\* reported new again.
C5_Witness ==
  \E i, j, k \in 1..Len(calls) :
    /\ i < j /\ j < k /\ calls[i].key = calls[k].key
    /\ calls[i].res = "new" /\ calls[j].cut /\ calls[k].res = "new"


\* C6: after every completed is_dup call, for every configured maximum, the
\* table holds no more rows than the maximum (it is over the maximum only
\* inside a call, between the insert and the cut).
C6_CapacityBounded == pc # "count" => Cardinality(DOMAIN seen) <= maxlen
\* A call filled the table beyond its maximum, cut it and returned: the
\* newest maxlen // 2 rows are left.
C6_Witness ==
  /\ pc = "idle" /\ calls # <<>>
  /\ calls[Len(calls)].res = "new" /\ calls[Len(calls)].cut
  /\ Cardinality(DOMAIN seen) = maxlen \div 2
  /\ Cardinality(DOMAIN seen) >= 1

\* The time of the latest is_dup call on key k, duplicate reports included.
LastSeen(k) ==
  LET at == {calls[i].at : i \in {c \in 1..Len(calls) : calls[c].key = k}}
  IN CHOOSE t \in at : \A u \in at : u <= t
\* The n most recently seen keys of S.
MostRecentlySeen(S, n) ==
  {k \in S : Cardinality({j \in S : LastSeen(j) > LastSeen(k)}) < n}
\* C7: when an insert takes the table over the maximum, the cut leaves half
\* the maximum, and the rows left are the most recently seen ones, a key
\* being seen at each is_dup call on it, duplicate reports included.
C7_KeepsMostRecentlySeen ==
  [][(pc = "count" /\ pc' = "ret" /\ Cardinality(DOMAIN seen) > maxlen)
       => DOMAIN seen' = MostRecentlySeen(DOMAIN seen, maxlen \div 2)]_vars

\* C8: the shutdown path never blocks forever: _on_exit, run by a signal,
\* never waits for seen_db.lock while the frame it interrupted holds the
\* lock (that frame cannot run, and release it, before _on_exit returns),
\* so the dump it starts is always performed.
C8_ShutdownNeverBlocks ==
  ~(sigpc = "onexit" /\ dstage.sig = "acquire" /\ lock # "free")

\* The is_dup calls since the restart that are the first on their key since
\* the restart and have returned.
FirstCallsSinceBoot ==
  {c \in (boot.ncalls + 1)..Len(calls) :
     /\ calls[c].res \in {"new", "dup"}
     /\ \A b \in (boot.ncalls + 1)..(c - 1) : calls[b].key # calls[c].key}
\* C9 as stated: after a restart the table is the latest snapshot, cut to
\* the maximum; the first call on a key of the snapshot reports a duplicate,
\* and a key that is reprocessed (reported new) is not in the snapshot.
C9_ReloadedFromSnapshot ==
  boot.up =>
    /\ boot.table \subseteq boot.snap
    /\ Cardinality(boot.snap) <= maxlen => boot.table = boot.snap
    /\ \A c \in FirstCallsSinceBoot :
         calls[c].key \in boot.snap <=> calls[c].res = "dup"
\* The keys is_dup reported new before the restart.
MarkedBefore == {calls[b].key : b \in {x \in 1..boot.ncalls : calls[x].res = "new"}}
\* A cut has evicted the key of call c between the restart and the call.
CutSinceBoot(c) == calls[c].gen > Evictions(boot.nEvict, calls[c].key)
\* C9 amended: after a restart the table is the sqlite table the previous
\* process left, the snapshot files are not read.  The first call on a key
\* after the restart reports a duplicate exactly when the key was in the
\* table at the restart, in a snapshot or not, and no cut has evicted it
\* since.  So a key marked after the last snapshot is not reprocessed as
\* long as it is in the table, and a key marked before the restart, in the
\* snapshot or not, is reprocessed (reported new) only when a cut evicted
\* it, before the restart or after it.
C9_TableSurvivesRestart ==
  boot.up =>
    /\ boot.table = boot.left
    /\ \A k \in (MarkedBefore \cup boot.snap) \ boot.left :
         Evictions(boot.nEvict, k) > 0
    /\ \A c \in FirstCallsSinceBoot :
         /\ calls[c].res = "dup"
              <=> (calls[c].key \in boot.left /\ ~CutSinceBoot(c))
         /\ (calls[c].key \in boot.left \ boot.snap /\ ~CutSinceBoot(c))
              => calls[c].res = "dup"
         /\ (calls[c].key \in MarkedBefore \cup boot.snap /\ calls[c].res = "new")
              => \/ Evictions(boot.nEvict, calls[c].key) > 0 /\ calls[c].key \notin boot.left
                 \/ CutSinceBoot(c)
\* A snapshot was written, two keys were marked after it, a cut evicted one
\* of them, and the process was killed and started again: the first call
\* on the key that was left reported a duplicate, the first call on the
\* key that was cut reported it new.
C9_Witness ==
  /\ boot.up /\ boot.snap # {}
  /\ \E c \in FirstCallsSinceBoot :
       /\ calls[c].key \in boot.left \ boot.snap
       /\ calls[c].res = "dup"
  /\ \E c \in FirstCallsSinceBoot :
       /\ calls[c].key \in MarkedBefore \ (boot.snap \cup boot.left)
       /\ calls[c].res = "new"

\* The handler invocation of fragment i has returned.
Handled(i) == i < Len(frags) \/ pc = "idle"
\* The notify_all calls made for fragment i.
NotifiedFor(i) == {n \in 1..Len(notified) : notified[n].frag = i}
\* The classification of the stripped text of every message of the corpus,
\* as pairs of the text and its result.
C10_Verdict == {<<t, classify_and_match(Strip(t))>> : t \in Range(Texts)}
\* The source label of an event: the username of its chat with an "@", or
\* the sender when the chat is unknown or has no username, or
\* "(desconhecido)" when there is no sender either.
C10_SourceLabel(e) ==
  IF e.chat.some /\ e.chat.username # "" THEN "@" \o e.chat.username
  ELSE IF e.from_id.kind # "None" THEN PeerStr(e.from_id)
  ELSE "(desconhecido)"
\* What C10 expects of fragment i, body being the text between the prefix
\* and the trailing line: notified once if accepted and matched, with the
\* prefix (if the rule asks for one), the body and the source line; not
\* notified otherwise.
C10_Expected(i, body) ==
  LET r == (CHOOSE p \in C10_Verdict : p[1] = frags[i].event.message)[2]
      prefix == IF needs_header(r.key, r.price) THEN get_header_text(r.key)
                ELSE ""
      trailer == "\n\n-- via " \o C10_SourceLabel(frags[i].event)
  IN IF frags[i].st = "new" /\ r.ok
     THEN /\ Cardinality(NotifiedFor(i)) = 1
          /\ \A n \in NotifiedFor(i) : notified[n].text = prefix \o body \o trailer
     ELSE NotifiedFor(i) = {}
\* C10 as stated: the rendered text holds the original text unchanged.
C10_OriginalTextUnchanged ==
  \A i \in 1..Len(frags) :
    Handled(i) => C10_Expected(i, frags[i].event.message)
\* C10 amended: the rendered text holds the original text with its leading
\* and trailing whitespace stripped.
C10_StrippedTextRendered ==
  \A i \in 1..Len(frags) :
    Handled(i) => C10_Expected(i, Strip(frags[i].event.message))
\* "RTX 5060 por R$ 1.850,00 a vista" was matched by the GPU rule at 1850.00
\* and notified once, without prefix; the padded Ryzen offer was notified
\* with the prefix; "RTX 5060 Ti R$ 2.199,00" was evaluated and not notified.
C10_Witness ==
  /\ pc = "idle"
  /\ \E i, j, k \in 1..Len(frags) :
       /\ frags[i].chat = 1 /\ frags[i].msg = 1 /\ frags[i].st = "new"
       /\ \E n \in NotifiedFor(i) :
            notified[n].text = "RTX 5060 por R$ 1.850,00 a vista\n\n-- via @chan1"
       /\ \E l \in 1..Len(matchlog) :
            matchlog[l] = LogLine("gpu:rtx5060", 185000)
       /\ frags[j].chat = 1 /\ frags[j].msg = 2 /\ frags[j].st = "new"
       /\ \E n \in NotifiedFor(j) : notified[n].text
                                     = "Corre!<fire> Ryzen 7 5700X R$ 749,90 no pix\n\n-- via @chan1"
       /\ frags[k].chat = 2 /\ frags[k].msg = 1 /\ frags[k].st = "new"
       /\ frags[k].evals = 1 /\ NotifiedFor(k) = {}


\* --------------------------------------------- claims about the classifier
\* What the description of an offer says the classifier must find.  The
\* amounts the price extractor accepts: currency-marked, inside the sanity
\* band [5, 5000000].
InSanityBand(cents) == cents >= 500 /\ cents <= 500000000
AcceptedAmount(m) == m.mark = "r$" /\ InSanityBand(m.cents)
MentionsOf(d) == {d.mentions[n] : n \in 1..Len(d.mentions)}
CashAmounts(d) == {m.cents : m \in {x \in MentionsOf(d) : AcceptedAmount(x) /\ x.qual # ""}}
OpenAmounts(d) ==
  IF d.neg = "near" THEN {}
  ELSE {m.cents : m \in {x \in MentionsOf(d) : AcceptedAmount(x)}}
ExpectedPrice(d) ==
  IF CashAmounts(d) # {} THEN MinOf(CashAmounts(d))
  ELSE IF OpenAmounts(d) # {} THEN MinOf(OpenAmounts(d)) ELSE NoPrice
\* The results of the classifier evaluations so far.
Verdicts == {flushes[f].res : f \in 1..Len(flushes)}
PricedKeys == {"mobo:lga1700", "cpu:i5-14600k", "gpu:rtx5060", "cpu:ryzen7_5700x",
               "ssd:kingston:m2:1tb", "ram:16gb3200", "cadeira", "kindle",
               "tenis_nike", "tv", "monitor"}

\* C11: the classifier fails closed.  A result that is matched carries a
\* price, and an offer in which the extractor can find no price (no amount,
\* no currency marker, amounts outside the sanity band or next to a
\* negative word) is not matched, whatever rule it reaches.
C11_FailClosed ==
  \A r \in Verdicts :
    /\ r.ok => r.price # NoPrice /\ r.price > 0
    /\ ExpectedPrice(input) = NoPrice => ~r.ok
\* A priced rule was reached by a text without a price, and did not match.
C11_Witness ==
  /\ input \in BareOffers
  /\ \E r \in Verdicts : r.key \in PricedKeys /\ ~r.ok /\ r.price = NoPrice

\* The place of the rule of each phrase in the chain of classify_and_match
\* (1: the block list, 2: the bundle block, ... 30: no rule), and its key.
RuleOf(name) ==
  CASE name = "notebook"  -> [rank |-> 1, key |-> "block:cat"]
    [] name = "pcgamer"   -> [rank |-> 2, key |-> "block:pcgamer"]
    [] name = "a520"      -> [rank |-> 3, key |-> "mobo:a520"]
    [] name = "h610"      -> [rank |-> 4, key |-> "mobo:h610"]
    [] name = "b760m"     -> [rank |-> 5, key |-> "mobo:lga1700"]
    [] name = "i5-14600k" -> [rank |-> 6, key |-> "cpu:i5-14600k"]
    [] name = "rtx5060"   -> [rank |-> 10, key |-> "gpu:rtx5060"]
    [] name = "ryzen"     -> [rank |-> 13, key |-> "cpu:ryzen7_5700x"]
    [] name = "ssd"       -> [rank |-> 18, key |-> "ssd:kingston:m2:1tb"]
    [] name = "ram"       -> [rank |-> 19, key |-> "ram:16gb3200"]
    [] name = "cadeira"   -> [rank |-> 20, key |-> "cadeira"]
    [] name = "kindle"    -> [rank |-> 23, key |-> "kindle"]
    [] name = "tenis"     -> [rank |-> 25, key |-> "tenis_nike"]
    [] name = "tv"        -> [rank |-> 27, key |-> "tv"]
    [] name = "monitor"   -> [rank |-> 29, key |-> "monitor"]
    [] name = "oferta"    -> [rank |-> 30, key |-> "none"]
\* The phrase of the offer whose rule comes first in the chain.
FirstPhrase(d) ==
  CHOOSE p \in {d.prods[n] : n \in 1..Len(d.prods)} :
    \A n \in 1..Len(d.prods) : RuleOf(p).rank <= RuleOf(d.prods[n]).rank

\* C12: the rules are tried in one fixed order and the first whose predicate
\* fires decides.  An offer with two product phrases, in either order in
\* the text, gets the key of the phrase whose rule comes first in the chain
\* and exactly the result the offer of that phrase alone gets, also when
\* that rule rejects a price the later rule would accept.
C12_FirstRuleDecides ==
  \A r \in Verdicts :
    /\ input.prods # <<>> => r.key = RuleOf(FirstPhrase(input)).key
    /\ Len(input.prods) >= 2 =>
         r = classify_and_match(
               OfferText([input EXCEPT !.prods = <<FirstPhrase(input)>>]))
\* "RTX 5060 placa-mãe B760M de R$ 1.700,00": the motherboard rule, earlier
\* in the chain, rejects the price the RTX 5060 rule would accept.
C12_Witness ==
  /\ input = Offer(<<"rtx5060", "b760m">>, "none",
                   <<Mention(170000, "full", "r$", "")>>)
  /\ \E r \in Verdicts : r.key = "mobo:lga1700" /\ ~r.ok /\ r.reason = ">= 600"

\* The price policy of the rule of each priced phrase, in reais: the lower
\* threshold (0: the rule has none), the upper threshold, whether a price
\* equal to the upper threshold matches, and the reason given below the
\* lower threshold.
Policy(name) ==
  CASE name = "b760m"     -> [low |-> 300, high |-> 600, closed |-> FALSE,
                              under |-> "preço irreal (< 300)"]
    [] name = "i5-14600k" -> [low |-> 400, high |-> 1000, closed |-> FALSE,
                              under |-> "preço irreal (< 400)"]
    [] name = "rtx5060"   -> [low |-> 1500, high |-> 1900, closed |-> FALSE,
                              under |-> "preço irreal (< 1500)"]
    [] name = "ryzen"     -> [low |-> 400, high |-> 800, closed |-> FALSE,
                              under |-> "preço irreal (< 400)"]
    [] name = "ssd"       -> [low |-> 0, high |-> 400, closed |-> TRUE, under |-> ""]
    [] name = "ram"       -> [low |-> 100, high |-> 300, closed |-> TRUE,
                              under |-> "preço irreal (< 100)"]
    [] name = "cadeira"   -> [low |-> 300, high |-> 500, closed |-> FALSE,
                              under |-> "fora da faixa 300-500"]
    [] name = "kindle"    -> [low |-> 100, high |-> 470, closed |-> TRUE,
                              under |-> "preço irreal (< 100)"]
    [] name = "tenis"     -> [low |-> 0, high |-> 250, closed |-> FALSE, under |-> ""]
    [] name = "tv"        -> [low |-> 200, high |-> 1000, closed |-> TRUE,
                              under |-> "preço irreal (<200)"]
    [] name = "monitor"   -> [low |-> 200, high |-> 700, closed |-> FALSE,
                              under |-> "preço irreal (< 200)"]
\* The offer reaches a priced rule with a price.
PricedOffer(d) ==
  /\ d.prods # <<>>
  /\ FirstPhrase(d) \in PricedPhrases
  /\ ExpectedPrice(d) # NoPrice

\* C13 as stated: every price policy is half-open, a rule matches exactly
\* the prices with low <= price < high (violated: the SSD, RAM, Kindle and
\* TV rules match a price equal to their upper threshold).
C13_HalfOpenPolicies ==
  \A r \in Verdicts :
    PricedOffer(input) =>
      LET pol == Policy(FirstPhrase(input)) IN
        r.ok <=> (100 * pol.low <= r.price /\ r.price < 100 * pol.high)
\* C13, amended: a rule matches exactly the prices of its own interval,
\* which is half-open [low, high) for the motherboard, CPU, GPU, chair and
\* monitor rules, closed at the top for the SSD (price <= 400), RAM
\* [100, 300], Kindle [100, 470] and TV [200, 1000] rules, and without a
\* lower threshold for the SSD and Nike rules; a price below the lower
\* threshold is not matched, with the rule's own reason for it.
C13_PolicyIntervals ==
  \A r \in Verdicts :
    PricedOffer(input) =>
      LET pol == Policy(FirstPhrase(input)) IN
        /\ r.price = ExpectedPrice(input)
        /\ r.ok <=> /\ 100 * pol.low <= r.price
                    /\ \/ r.price < 100 * pol.high
                       \/ pol.closed /\ r.price = 100 * pol.high
        /\ r.price < 100 * pol.low => r.reason = pol.under
\* "Smart TV de R$ 1.000,00" was classified: the price is the upper
\* threshold of the TV rule, and the offer is matched.
C13_Witness ==
  /\ input = Offer(<<"tv">>, "none", <<Mention(100000, "full", "r$", "")>>)
  /\ \E r \in Verdicts : r.key = "tv" /\ r.ok /\ r.price = 100000 /\ r.reason = "<=1000"

\* C14: the boundary of the [300, 600) motherboard rule.  For a text that
\* reaches the LGA1700/B760 rule, R$ 300,00 and R$ 599,99 are matched,
\* R$ 600,00 is not, and R$ 299,99 is not, with the implausible-price
\* reason; every other price is matched exactly when it is in [300, 600).
C14_MoboBoundary ==
  \A r \in Verdicts :
    (PricedOffer(input) /\ FirstPhrase(input) = "b760m") =>
      /\ r.key = "mobo:lga1700"
      /\ ExpectedPrice(input) = 30000 => r.ok /\ r.price = 30000
      /\ ExpectedPrice(input) = 59999 => r.ok /\ r.price = 59999
      /\ ExpectedPrice(input) = 60000 => ~r.ok /\ r.reason = ">= 600"
      /\ ExpectedPrice(input) = 29999 => ~r.ok /\ r.reason = "preço irreal (< 300)"
      /\ r.ok <=> (30000 <= r.price /\ r.price < 60000)
\* "placa-mãe B760M de R$ 600,00" was classified: at the upper threshold,
\* not matched.
C14_Witness ==
  /\ input = Offer(<<"b760m">>, "none", <<Mention(60000, "full", "r$", "")>>)
  /\ \E r \in Verdicts :
       r.key = "mobo:lga1700" /\ ~r.ok /\ r.price = 60000 /\ r.reason = ">= 600"

\* C15: the block list and the bundle/kit block are tried before every
\* product rule.  An offer that names a blocked category (notebook) or a
\* bundle (pc gamer), before or after a product phrase, is not matched and
\* gets the block's own key and reason, the block list first.
HasPhrase(d, name) == \E n \in 1..Len(d.prods) : d.prods[n] = name
C15_BlocksFirst ==
  \A r \in Verdicts :
    /\ HasPhrase(input, "notebook") =>
         ~r.ok /\ r.key = "block:cat" /\ r.reason = "celular/notebook etc."
    /\ (HasPhrase(input, "pcgamer") /\ ~HasPhrase(input, "notebook")) =>
         ~r.ok /\ r.key = "block:pcgamer" /\ r.reason = "setup completo"
\* "RTX 5060 pc gamer de R$ 1.700,00": the price is one the RTX 5060 rule
\* matches, the offer is blocked as a bundle.
C15_Witness ==
  /\ input = Offer(<<"rtx5060", "pcgamer">>, "none",
                   <<Mention(170000, "full", "r$", "")>>)
  /\ \E r \in Verdicts : r.key = "block:pcgamer" /\ ~r.ok

\* C16 as stated: the price of the result is populated exactly when the
\* text holds an amount the price extractor accepts (violated: a text the
\* block list or the bundle block stops gets no price, whatever it holds).
Blocked(d) == HasPhrase(d, "notebook") \/ HasPhrase(d, "pcgamer")
C16_PriceIffExtracted ==
  \A f \in 1..Len(flushes) :
    /\ flushes[f].res.price # NoPrice <=> ExpectedPrice(input) # NoPrice
    /\ flushes[f].res.price # NoPrice <=> flushes[f].found # NoPrice
\* C16, amended: for a text that neither block rule stops, the price of the
\* result is populated exactly when the extractor finds an amount, and is
\* that amount; the result of a block rule never carries a price.
C16_PriceIffExtractedUnlessBlocked ==
  \A f \in 1..Len(flushes) :
    IF Blocked(input)
    THEN flushes[f].res.price = NoPrice
    ELSE /\ flushes[f].res.price = ExpectedPrice(input)
         /\ flushes[f].res.price = flushes[f].found
\* "notebook gamer de R$ 1.999,00 por R$ 1.699,00 no pix" was classified:
\* the extractor finds 1699.00 in it, the result carries no price.
C16_Witness ==
  /\ input = Offer(<<"notebook">>, "none",
                   <<Mention(199900, "full", "r$", ""), Mention(169900, "full", "r$", "pix")>>)
  /\ \E f \in 1..Len(flushes) :
       /\ flushes[f].res.key = "block:cat" /\ flushes[f].res.price = NoPrice
       /\ flushes[f].found = 169900

\* C17: the price a text yields.  If the text has accepted cash-tagged
\* amounts ("R$ x no pix", "R$ x à vista"), the extractor returns the
\* smallest of them and ignores every other amount, a smaller one too;
\* otherwise the smallest currency-marked amount whose +-40 character
\* context has no negative term; otherwise no price.
C17_PriceSelection ==
  \A f \in 1..Len(flushes) :
    LET price == flushes[f].found IN
      /\ CashAmounts(input) # {} => price = MinOf(CashAmounts(input))
      /\ (CashAmounts(input) = {} /\ OpenAmounts(input) # {}) =>
           price = MinOf(OpenAmounts(input))
      /\ (CashAmounts(input) = {} /\ OpenAmounts(input) = {}) => price = NoPrice
      /\ input = Offer(<<>>, "none", <<Mention(199900, "full", "r$", ""),
                                       Mention(169900, "full", "r$", "pix")>>)
           => price = 169900
\* "de R$ 1.699,00 por R$ 1.999,00 no pix" was evaluated: the cash-tagged
\* amount is the larger one, and it is the price.
C17_Witness ==
  /\ input = Offer(<<>>, "none", <<Mention(169900, "full", "r$", ""),
                                   Mention(199900, "full", "r$", "pix")>>)
  /\ \E r \in Verdicts : r.key = "none" /\ r.price = 199900

\* C18: number normalization.  A currency-marked figure is read with "." as
\* the thousands separator and "," as the decimal separator: "R$ 3.199" is
\* 3199, "R$ 1.799,90" is 1799.90, "R$ 89,90" is 89.90, and a figure
\* written without the dots ("R$ 1999", "R$ 1899,90") is the same amount.
\* A figure without the currency marker yields no price, and a value
\* outside the sanity band [5, 5000000] is rejected.
C18_Normalization ==
  \A f \in 1..Len(flushes) :
    input \in FigureInputs =>
      LET m == input.mentions[1]
          price == flushes[f].found
      IN /\ (m.mark = "r$" /\ InSanityBand(m.cents)) => price = m.cents
         /\ m.mark = "bare" => price = NoPrice
         /\ ~InSanityBand(m.cents) => price = NoPrice
         /\ _to_float_brl(Written(m.cents, m.style)) =
              (IF InSanityBand(m.cents) THEN m.cents ELSE NoPrice)
         /\ (m.mark = "r$" /\ m.cents = 319900 /\ m.style = "int") => price = 319900
         /\ (m.mark = "r$" /\ m.cents = 179990) => price = 179990
         /\ (m.mark = "r$" /\ m.cents = 8990) => price = 8990


\* ------------------------------------------- claims about SeenDB and faults
\* The calls in flight that have inserted their key and not yet returned.
Inserting(k) ==
  \E th \in Threads : Call(th).key = k /\ Call(th).pc \in {"count", "delete", "ret"}

\* Two returned calls, in the order of their returns, that were in flight
\* at the same time: the later one began before the earlier one returned.
Overlapping(i, j) == i < j /\ calls[j].began < i
\* C19: is_dup is atomic under concurrency.  Of the calls made with the
\* same key at the same time at most one reports it new (exactly one when
\* the key is not stored yet) and the others report a duplicate; a call
\* reports a duplicate only of a key another call inserted.  A stored key
\* disappears only by the cut of a call, and a cut never deletes a row
\* that is among the newest maxlen // 2 of the table it cuts.
C19_AtomicCheckAndMark ==
  /\ \A i, j \in 1..Len(calls) :
       (Overlapping(i, j) /\ calls[i].key = calls[j].key)
         => ~(calls[i].res = "new" /\ calls[j].res = "new")
  /\ \A j \in 1..Len(calls) :
       calls[j].res = "dup" =>
         \/ \E i \in 1..Len(calls) : calls[i].key = calls[j].key /\ calls[i].res = "new"
         \/ Inserting(calls[j].key)
  /\ \A th \in Threads : Call(th).lost = {}
  /\ \A i \in 1..Len(calls) :
       calls[i].res = "new" =>
         calls[i].key \in DOMAIN seen \/ nEvict[calls[i].key] > calls[i].gen

\* C20: no I/O failure is fatal to the core loop.  When a statement of
\* is_dup, a delivery of the notifier, the match log or a snapshot dump
\* fails while a message is handled, the handler returns as after any
\* message (idle, seen_db.lock free, so that the next is_dup call can take
\* it), and every later message is handled as a message is: one that
\* is_dup reports new is classified and, when it matches, handed to
\* notify_all and to the match log, whose write is made (its line goes
\* to the end of the file, onto the head a failed write left there if
\* there is one) or fails in its turn.
Matched(j) == \E f \in FlushesOf(j) : flushes[f].ok
C20_FailureNotFatal ==
  /\ (MainRuns /\ pc \in {"idle", "is_dup"}) => lock = "free"
  /\ \A i \in 1..Len(frags) :
       (frags[i].st = "failed" \/ frags[i].log # "") => Handled(i)
  /\ \A j \in 1..Len(frags) :
       frags[j].st \in {"new", "unsent"} =>
         /\ (j < Len(frags) \/ pc \in {"idle", "notify", "sending", "matchlog"})
              => FlushesOf(j) # {}
         /\ (Handled(j) /\ Matched(j)) =>
              /\ NotifiedFor(j) # {}
              /\ frags[j].log \in {"whole", "fused", "partial", "none"}
         /\ ~Matched(j) => frags[j].log = "" /\ NotifiedFor(j) = {}
         /\ frags[j].log = "whole" =>
              \E l \in 1..Len(matchlog) :
                matchlog[l].st = "whole" /\ matchlog[l].key = flushes[MinOf(FlushesOf(j))].res.key
         /\ frags[j].log = "fused" =>
              \E i \in 1..(j - 1), l \in 1..Len(matchlog) :
                /\ frags[i].log = "partial"
                /\ matchlog[l].st = "fused"
                /\ matchlog[l].with = flushes[MinOf(FlushesOf(j))].res.key
\* is_dup failed for one message; the next one matched, was notified, and
\* the write of its line to the match log failed part-way; the one after
\* it matched, was notified, and its line went onto the head that was left.
C20_Witness ==
  \E h, i, j \in 1..Len(frags) :
    /\ h < i /\ i < j
    /\ frags[h].st = "failed"
    /\ frags[i].st = "new" /\ frags[i].log = "partial" /\ NotifiedFor(i) # {}
    /\ frags[j].st = "new" /\ frags[j].log = "fused" /\ NotifiedFor(j) # {}
    /\ Handled(j)
    /\ matchlog[Len(matchlog)].st = "fused"
    /\ matchlog[Len(matchlog)].key = flushes[MinOf(FlushesOf(i))].res.key
    /\ matchlog[Len(matchlog)].with = flushes[MinOf(FlushesOf(j))].res.key


\* ------------------------------------------- claims about delivery and exit
\* C21: while a call to the notifier is in flight (the handler is in
\* notify_all, from its call to its return, a post of bot_send_text on its
\* way or not), the handler holds no lock of the dedup cache: seen_db.lock
\* is free, or held by the signal handler that runs on top of it, never by
\* the handler's own is_dup call.  (The code has no per-source lock.)
C21_NoLockWhileNotifying ==
  (pc \in {"notify", "sending"} \/ send.pc = "inflight")
    => /\ lock \notin {"is_dup", "main"}
       /\ sigpc = "none" => lock = "free"
\* The post to the second destination is in flight (_send_lock held), for
\* a message is_dup has just stored, and seen_db.lock is free.
C21_Witness ==
  /\ pc = "sending" /\ send.pc = "inflight" /\ send.lock = "held"
  /\ notified[Len(notified)].sent = <<TRUE>>
  /\ lock = "free"
  /\ CurKey \in DOMAIN seen
  /\ calls[Len(calls)].res = "new"

\* C22: fragments of one source are processed in arrival order.  When a
\* fragment of a chat has arrived, every earlier accepted fragment of the
\* chat has been classified and, if matched, notified; classifications and
\* notifications of a chat are made in the order of arrival.
C22_ArrivalOrder ==
  /\ \A i, j \in 1..Len(frags) :
       (i < j /\ frags[i].chat = frags[j].chat /\ frags[i].st = "new") =>
         /\ frags[i].evals = 1
         /\ \A f \in FlushesOf(i) : flushes[f].ok => NotifiedFor(i) # {}
  /\ \A f, g \in 1..Len(flushes) :
       (f < g /\ flushes[f].chat = flushes[g].chat)
         => flushes[f].frags[1] < flushes[g].frags[1]
  /\ \A m, n \in 1..Len(notified) :
       (m < n /\ notified[m].chat = notified[n].chat)
         => notified[m].frag < notified[n].frag
\* Two matched fragments of one chat were notified, the earlier one first,
\* and it was notified before the later one was classified.
C22_Witness ==
  /\ Len(notified) >= 2
  /\ notified[1].chat = notified[2].chat
  /\ notified[1].key # notified[2].key
  /\ notified[1].frag < notified[2].frag
  /\ \A f \in FlushesOf(notified[2].frag) : f > 1

\* C23: the veto of the blocked chipsets.  An offer that mentions an A520
\* or an H610 board is never matched, whatever its price, also when it names
\* a B760M board or any product of a later rule, before or after; unless a
\* block rule stops it first, it gets the key of the veto.
C23_ChipsetVeto ==
  \A r \in Verdicts :
    (HasPhrase(input, "a520") \/ HasPhrase(input, "h610")) =>
      /\ ~r.ok
      /\ r.key \in {"mobo:a520", "mobo:h610", "block:cat", "block:pcgamer"}
      /\ ~Blocked(input) =>
           r.key = (IF HasPhrase(input, "a520") THEN "mobo:a520" ELSE "mobo:h610")
\* "placa-mãe B760M H610 DDR4 de R$ 450,00": a price the B760 rule matches,
\* vetoed by the H610 rule.
C23_Witness ==
  /\ input = Offer(<<"b760m", "h610">>, "none", <<Mention(45000, "full", "r$", "")>>)
  /\ \E r \in Verdicts : r.key = "mobo:h610" /\ ~r.ok /\ r.price = 45000

\* C24: bot_send_text is a bounded retry.  At every point of a call: no
\* more posts than RETRY_SEND_ATTEMPTS (as configured); a successful post is
\* the last one and ends the call with ok = True; the sleeps are the ones
\* after attempts 0, 1, ... and none follows the last attempt; the call
\* returns ok = True exactly when a post succeeded, and otherwise ok = False
\* with the error of the last post, after all the attempts.  Every step of a
\* call adds a post or moves to the next attempt, so the call ends.
C24_Bounded ==
  LET n == send.attempts
      posts == send.posts
      sleeps == send.sleeps
  IN /\ Len(posts) <= n
     /\ send.attempt <= n
     /\ \A i \in 1..Len(posts) :
          Succeeds(posts[i]) => i = Len(posts) /\ send.pc = "done" /\ send.ret.ok
     /\ \A i \in 1..Len(sleeps) : sleeps[i] = i - 1 /\ sleeps[i] + 1 < n
     /\ Len(sleeps) <= Len(posts)
     /\ send.pc = "done" =>
          /\ send.ret.ok <=> \E i \in 1..Len(posts) : Succeeds(posts[i])
          /\ send.ret.ok => Len(sleeps) = Len(posts) - 1
          /\ ~send.ret.ok =>
               /\ Len(posts) = n
               /\ n > 0 => send.ret.msg = ErrOf(posts[n]) /\ Len(sleeps) = n - 1
               /\ n = 0 => send.ret.msg = "unknown-error"
C24_Progress ==
  (send.pc \notin {"idle", "done"} /\ send' # send) =>
    \/ send'.pc = "done"
    \/ Len(send'.posts) + send'.attempt > Len(send.posts) + send.attempt
    \/ send.pc = "loop" /\ send'.pc = "inflight"
C24_BoundedRetry == []C24_Bounded /\ [][C24_Progress]_vars
\* All four attempts fail and the call returns the error of the last one,
\* having slept three times.
C24_Witness ==
  /\ send.pc = "done" /\ send.attempts = RETRY_SEND_ATTEMPTS
  /\ send.posts = <<"503", "exception", "200-not-ok", "429">>
  /\ send.sleeps = <<0, 1, 2>>
  /\ send.ret = [ok |-> FALSE, msg |-> "transient-http-429"]

\* The is_dup call made for fragment i: the handler calls is_dup once for
\* every event whose text is not blank.
CallOf(i) == Cardinality({n \in 1..i : frags[n].st # "blank"})
\* Fragment j is a redelivery of fragment i, whose delivery failed, and
\* is_dup has answered for it.
Redelivered(i, j) ==
  /\ i < j
  /\ frags[i].key = frags[j].key
  /\ frags[i].st = "unsent"
  /\ frags[j].st \in {"dup", "new", "unsent"}
Dropped(j) == frags[j].st = "dup" /\ FlushesOf(j) = {} /\ NotifiedFor(j) = {}
\* C25 as stated: every redelivery of a message whose delivery failed is
\* dropped as a duplicate, neither classified nor notified.
C25_NeverDeliveredLater ==
  \A i, j \in 1..Len(frags) : Redelivered(i, j) => Dropped(j)
\* C25 amended: the key has been inserted when the message is classified
\* and when its delivery is attempted (it is in the table, or the cut of
\* its own is_dup call has deleted it again), and a redelivery of a message
\* whose delivery failed, for every destination or for some, is dropped as
\* a duplicate unless the key was evicted from the table in between.
C25_DroppedWhileStored ==
  /\ pc \in {"classify", "notify", "sending", "matchlog"} =>
       \/ CurKey \in DOMAIN seen
       \/ calls[Len(calls)].cut /\ Evictions(nEvict, CurKey) > calls[Len(calls)].gen
  /\ \A i, j \in 1..Len(frags) :
       (Redelivered(i, j) /\ calls[CallOf(i)].gen = calls[CallOf(j)].gen)
         => Dropped(j)
\* A matched message delivered to the first destination and not to the
\* second, delivered again while its key is still stored, and dropped.
C25_Witness ==
  \E i, j \in 1..Len(frags) :
    /\ Redelivered(i, j) /\ calls[CallOf(i)].gen = calls[CallOf(j)].gen
    /\ Dropped(j) /\ FlushesOf(i) # {}
    /\ \E n \in NotifiedFor(i) : notified[n].sent = <<TRUE, FALSE>>

\* C26: an is_dup call that reports a duplicate leaves the table as it was:
\* neither taking the lock nor the lookup that finds the row changes the
\* keys, the ts of any key (the queried one included) or the evictions.
C26_DuplicateStep ==
  LET enters  == pc = "is_dup" /\ pc' = "select"
      reports == /\ pc = "select" /\ pc' = "idle"
                 /\ Len(calls') = Len(calls)
                 /\ calls'[Len(calls)].res = "dup"
  IN (enters \/ reports) => (seen' = seen /\ nEvict' = nEvict)
C26_DuplicateLeavesCache == [][C26_DuplicateStep]_vars
\* A duplicate was reported for a key of a full table, and the row still
\* has the ts of its insert, earlier than the call.
C26_Witness ==
  /\ pc = "idle" /\ Len(calls) > 0
  /\ LET c == calls[Len(calls)] IN
       /\ c.res = "dup" /\ c.key \in DOMAIN seen
       /\ seen[c.key].ts < c.at
       /\ Cardinality(DOMAIN seen) = maxlen

\* C27: graceful shutdown.  Once SIGTERM or SIGINT was received and _on_exit
\* has persisted the state and returned, the process handles no further
\* inbound message: no event is dispatched to the handler any more.
C27_StopsAfterSignal ==
  [][(signalled /\ sigpc = "none" /\ ~boot.up) => Len(frags') = Len(frags)]_vars

=============================================================================
